---- MODULE Spec2Model ----
(***************************************************************************)
(* A model of python/pyspark/worker.py: the worker that decodes a task's   *)
(* command, builds the calling adapter of its evaluation mode and streams  *)
(* batches through it.  Each part of the worker is a group of variables    *)
(* with its own specification; the groups a specification does not drive   *)
(* stay at their idle values.                                              *)
(*                                                                         *)
(* Python lists are 0-based, TLA+ sequences 1-based: a column offset or a  *)
(* row index o of the source is o + 1 here.                                *)
(***************************************************************************)
EXTENDS Integers, Sequences, FiniteSets, TLC

VARIABLES
    \* read_single_udf: decoding of one function chain
    cWire,      \* the (callable, return_type) pairs on the wire, in order
    cArgs,      \* the arguments the decoded callable is invoked with
    cI,         \* number of pairs read so far (the loop index of line 558)
    cFunc,      \* chained_func: None, or the callable built so far
    cRet,       \* return_type: Unbound, or the one read last
    cPc,        \* "read" | "built" | "called" | "failed"
    cResult,    \* what the call of the decoded callable returned
    \* read_udtf: a row-based table function and its mapper
    uRows,      \* the input rows (each the table argument of one call)
    uPci,       \* partition_child_indexes (1-based); <<>> when none declared
    uHasTerm,   \* whether the handler class defines terminate
    uPc,        \* "decode" | "rows" | "finally" | "resume" | "done" | "failed"
    uPos,       \* index of the next input row the mapper takes
    uPrev,      \* UDTFWithPartitions._prev_arguments (<<>>: the empty list)
    uCur,       \* the handler instance in use (self._udtf), 0 before any
    uCount,     \* handler instances constructed so far
    uLog,       \* constructions, handler calls and yields, in order
    uOut,       \* the tuples the mapper has yielded to the output
    uPending,   \* exception in flight while the mapper's finally runs
    uErr,       \* the exception that left the mapper
    \* main: one task from the preamble to the final handshake
    mSplit,     \* the partition index the counterpart sends first
    mBatches,   \* result batches the pipeline produces when nothing fails
    mAccs,      \* accumulator updates buffered by the task
    mSignal,    \* what the counterpart sends after the accumulator section
    mPc,        \* the statement main is at
    mStep,      \* writes of the finishing phase done so far
    mIO,        \* reads from infile and writes to outfile, in order
    mEmitted,   \* result batches written so far
    mRaised,    \* the phase in which an exception was raised, or NoErr
    mReport,    \* how writing the error report went, NoErr before it
    mStderr,    \* whether the failure was printed on the error console
    mExit,      \* "running" | "returned" | "exit" (sys.exit(-1)) | "uncaught"
    \* read_udfs.func: the iterator modes (scalar iterator, map iterators)
    sMode,            \* "scalar_iter" | "map_iter"
    sIn,              \* row counts of the input batches, in order
    sInPos,           \* batches pulled from the input iterator so far
    sChainPulled,     \* those of them the chain pulled
    num_input_rows,   \* rows of the batches passed through map_batch
    num_output_rows,  \* rows of the results the chain has produced
    sOutBatches,      \* results yielded to the output
    sOutRows,         \* their rows
    sPc,              \* "loop" | "done" | "failed"
    sErr,             \* the exception that left func
    \* wrap_scalar_pandas_udf / wrap_arrow_batch_udf over a stream of batches
    vKind,      \* "scalar_pandas" | "arrow_batch"
    vBatches,   \* row counts of the input batches, in order
    vResults,   \* what the chain returned for each batch handled so far
    vOut,       \* row counts of the results the adapter returned
    vPc,        \* "run" | "failed"
    vErr,       \* the exception that left the adapter
    \* grouped map with state: read_udfs.mapper and the adapter's wrapped
    gN,           \* batches of the group on the input (at least one)
    gState,       \* the state handle the adapter is given (a[1], line 1147)
    gStateRet,    \* the state handle the adapter returns (line 446)
    gTimedOut,    \* state.hasTimedOut
    gOffsets,     \* parsed_offsets[0]: [keys, values] column offsets (1-based)
    gDeclared,    \* len(return_type): the declared field count
    gRet,         \* what the chain returns: its kind and its elements
    gPulled,      \* batches pulled from the input (data_gen) so far
    gValuesPos,   \* elements taken from the value sequence (values_gen)
    gTaken,       \* those of them the adapter itself took
    gChainArg,    \* the values the chain was invoked with
    gSeen,        \* indexes of the value batches the chain has consumed
    gVerified,    \* elements of the returned sequence verified so far
    gOut,         \* the elements handed on downstream
    gPc,          \* "mapper" | "iter" | "done" | "failed"
    gErr,         \* the exception that left the adapter
    \* wrap_bounded_window_agg_pandas_udf.wrapped
    wArgs,        \* the argument batches (columns of equal length)
    wBegin,       \* begin_index.values
    wEnd,         \* end_index.values
    wI,           \* the loop index i of line 510 (0-based)
    wCalls,       \* the argument slices of each call of the chain so far
    wResult,      \* the list result
    wOut,         \* the series returned
    wPc,          \* "loop" | "done" | "failed"
    wErr,
    \* verify_pandas_result as applied by the adapters of structured results
    pPath,        \* the adapter that applies the check
    pConf,        \* the runner configuration's assignColumnsByName
    pReturnType,  \* the declared return type
    pResult,      \* the result handed to the check
    pVerdict,     \* what the check did
    pPc,          \* "apply" | "checked"
    \* the decoders read_single_udf and read_udtf
    dEvalType,    \* eval_type
    dWire,        \* the arguments on the wire
    dPciN,        \* num_partition_child_indexes on the wire
    dHandler,     \* what the handler command unpickles to
    dStruct,      \* whether the return type on the wire is a StructType
    dChainLen,    \* the chain length on the wire
    dReads,       \* the fields read from the input so far, in order
    dArgs,        \* args_offsets
    dKwargs,      \* kwargs_offsets
    dUdtf,        \* the object bound to udtf
    dInstances,   \* handler instances constructed so far
    dRows,        \* input rows evaluated so far
    dPc,
    dErr,
    \* the resources loop of the task preamble in main
    rWire,        \* the resource entries on the wire
    rPos,         \* entries read so far
    rResources,   \* taskContext._resources
    rPc,          \* "read" | "done"
    \* read_udfs: the UDF count, the UDF definitions and the generic stream
    qEvalType,    \* eval_type
    qNumUdfs,     \* num_udfs on the wire
    qInput,       \* batches on the input stream
    qUdfs,        \* UDF definitions decoded so far
    qPulled,      \* input batches pulled by map
    qApplied,     \* input batches the mapper was applied to
    qOut,         \* results handed to dump_stream
    qPc,
    qErr,
    \* the adapters of grouped aggregation and of unbounded windows
    aKind,        \* "grouped_agg" | "window_unbounded"
    aArgs,        \* the argument columns of the group or window
    aCalls,       \* invocations of the chain
    aResult,      \* what the chain returned
    aOut,         \* the series the adapter returns
    aPc,
    \* wrap_udtf.evaluate, the row-based table function
    xSize,        \* return_type_size
    xRes,         \* what the handler method does
    xPos,         \* rows of res converted so far
    xOut,         \* the rows converted so far
    xPc,
    xErr,
    \* wrap_arrow_udtf.evaluate, the vectorized table function
    hMethod,      \* "eval" | "terminate"
    hArgs,        \* the number of argument columns
    hRows,        \* the rows of the input batch
    hReturnType,  \* return_type
    hResults,     \* what each call of the handler method does, in order
    hI,           \* rows of the input batch done so far
    hCalls,       \* the calls of the handler method so far
    hOut,         \* the result batches yielded so far
    hPc,
    hErr,
    \* the generic mapper of read_udfs, applied to one input batch
    kUdfs,        \* udfs: the (args_offsets, kwargs_offsets, f) of the task
    kCalls,       \* the calls of the UDFs made so far, in order
    kResult,      \* what the mapper returns
    kPc,
    kErr,
    \* extract_key_value_indexes and the mappers that use its result
    oMode,        \* "grouped_map" | "cogrouped_map"
    oGroups,      \* the key and value indexes of each DataFrame
    oList,        \* grouped_arg_offsets
    oIdx,         \* idx
    oParsed,      \* parsed
    oUsed,        \* the pairs the mapper takes its columns from
    oPc

chainVars == <<cWire, cArgs, cI, cFunc, cRet, cPc, cResult>>
udtfVars == <<uRows, uPci, uHasTerm, uPc, uPos, uPrev, uCur, uCount, uLog,
              uOut, uPending, uErr>>

mainVars == <<mSplit, mBatches, mAccs, mSignal, mPc, mStep, mIO, mEmitted,
              mRaised, mReport, mStderr, mExit>>

iterVars == <<sMode, sIn, sInPos, sChainPulled, num_input_rows,
              num_output_rows, sOutBatches, sOutRows, sPc, sErr>>

vecVars == <<vKind, vBatches, vResults, vOut, vPc, vErr>>

stateVars == <<gN, gState, gStateRet, gTimedOut, gOffsets, gDeclared, gRet, gPulled, gValuesPos,
               gTaken, gChainArg, gSeen, gVerified, gOut, gPc, gErr>>
winVars == <<wArgs, wBegin, wEnd, wI, wCalls, wResult, wOut, wPc, wErr>>
verifyVars == <<pPath, pConf, pReturnType, pResult, pVerdict, pPc>>
decodeVars == <<dEvalType, dWire, dPciN, dHandler, dStruct, dChainLen, dReads,
                dArgs, dKwargs, dUdtf, dInstances, dRows, dPc, dErr>>
resVars == <<rWire, rPos, rResources, rPc>>
udfsVars == <<qEvalType, qNumUdfs, qInput, qUdfs, qPulled, qApplied, qOut, qPc,
              qErr>>
aggVars == <<aKind, aArgs, aCalls, aResult, aOut, aPc>>
rowVars == <<xSize, xRes, xPos, xOut, xPc, xErr>>
mapperVars == <<kUdfs, kCalls, kResult, kPc, kErr>>
offsVars == <<oMode, oGroups, oList, oIdx, oParsed, oUsed, oPc>>
arrowVars == <<hMethod, hArgs, hRows, hReturnType, hResults, hI, hCalls, hOut,
               hPc, hErr>>

vars == <<chainVars, udtfVars, mainVars, iterVars, vecVars, stateVars, winVars,
          verifyVars, decodeVars, resVars, udfsVars, aggVars, rowVars,
          arrowVars, mapperVars, offsVars>>

\* What the actions of each group leave alone.
notChain == <<udtfVars, mainVars, iterVars, vecVars, stateVars, winVars,
              verifyVars, decodeVars, resVars,
              udfsVars, aggVars, rowVars, arrowVars, mapperVars, offsVars>>
notUdtf == <<chainVars, mainVars, iterVars, vecVars, stateVars, winVars,
             verifyVars, decodeVars, resVars,
             udfsVars, aggVars, rowVars, arrowVars, mapperVars, offsVars>>
notMain == <<chainVars, udtfVars, iterVars, vecVars, stateVars, winVars,
             verifyVars, decodeVars, resVars,
             udfsVars, aggVars, rowVars, arrowVars, mapperVars, offsVars>>
notIter == <<chainVars, udtfVars, mainVars, vecVars, stateVars, winVars,
             verifyVars, decodeVars, resVars,
             udfsVars, aggVars, rowVars, arrowVars, mapperVars, offsVars>>
notVec == <<chainVars, udtfVars, mainVars, iterVars, stateVars,
            winVars, verifyVars, decodeVars, resVars,
            udfsVars, aggVars, rowVars, arrowVars, mapperVars, offsVars>>
notState == <<chainVars, udtfVars, mainVars, iterVars, vecVars, winVars,
              verifyVars, decodeVars, resVars,
              udfsVars, aggVars, rowVars, arrowVars, mapperVars, offsVars>>
notWin == <<chainVars, udtfVars, mainVars, iterVars, vecVars,
            stateVars, verifyVars, decodeVars, resVars,
            udfsVars, aggVars, rowVars, arrowVars, mapperVars, offsVars>>
notVerify == <<chainVars, udtfVars, mainVars, iterVars, vecVars,
               stateVars, winVars, decodeVars, resVars,
               udfsVars, aggVars, rowVars, arrowVars, mapperVars, offsVars>>
notDecode == <<chainVars, udtfVars, mainVars, iterVars, vecVars,
               stateVars, winVars, verifyVars, resVars,
               udfsVars, aggVars, rowVars, arrowVars, mapperVars, offsVars>>
notRes == <<chainVars, udtfVars, mainVars, iterVars, vecVars,
            stateVars, winVars, verifyVars, decodeVars,
            udfsVars, aggVars, rowVars, arrowVars, mapperVars, offsVars>>
notUdfs == <<chainVars, udtfVars, mainVars, iterVars, vecVars,
             stateVars, winVars, verifyVars, decodeVars, resVars,
             aggVars, rowVars, arrowVars, mapperVars, offsVars>>
notAgg == <<chainVars, udtfVars, mainVars, iterVars, vecVars,
            stateVars, winVars, verifyVars, decodeVars, resVars,
            udfsVars, rowVars, arrowVars, mapperVars, offsVars>>
notRows == <<chainVars, udtfVars, mainVars, iterVars, vecVars,
             stateVars, winVars, verifyVars, decodeVars, resVars,
             udfsVars, aggVars, arrowVars, mapperVars, offsVars>>
notArrow == <<chainVars, udtfVars, mainVars, iterVars, vecVars,
              stateVars, winVars, verifyVars, decodeVars, resVars,
              udfsVars, aggVars, rowVars, mapperVars, offsVars>>
notMapper == <<chainVars, udtfVars, mainVars, iterVars, vecVars,
               stateVars, winVars, verifyVars, decodeVars, resVars,
               udfsVars, aggVars, rowVars, arrowVars, offsVars>>
notOffs == <<chainVars, udtfVars, mainVars, iterVars, vecVars,
             stateVars, winVars, verifyVars, decodeVars, resVars,
             udfsVars, aggVars, rowVars, arrowVars, mapperVars>>

None == "None"
Unbound == "Unbound"
NoErr == "none"

\* Values a guest callable computes on.
Modulus == 3
Vals == 0..(Modulus - 1)
\* A raised TypeError, as a result outside Vals.
TypeError == Modulus

\* chained_func before the first stage is read.
NoFunc == [kind |-> "none", name |-> "", f |-> None, g |-> None]

\* Front of a non-empty sequence.
Front(s) == SubSeq(s, 1, Len(s) - 1)

\* All sequences over S of length 0..n.
SeqsUpTo(S, n) == UNION {[1..k -> S] : k \in 0..n}

(***************************************************************************)
(* The idle values of each group of variables.                             *)
(***************************************************************************)
ChainIdle ==
    /\ cWire = <<>>
    /\ cArgs = <<>>
    /\ cI = 0
    /\ cFunc = NoFunc
    /\ cRet = Unbound
    /\ cPc = "idle"
    /\ cResult = TypeError

UdtfIdle ==
    /\ uRows = <<>>
    /\ uPci = <<>>
    /\ uHasTerm = FALSE
    /\ uPc = "idle"
    /\ uPos = 1
    /\ uPrev = <<>>
    /\ uCur = 0
    /\ uCount = 0
    /\ uLog = <<>>
    /\ uOut = <<>>
    /\ uPending = NoErr
    /\ uErr = NoErr

MainIdle ==
    /\ mSplit = 0
    /\ mBatches = 0
    /\ mAccs = 0
    /\ mSignal = "END_OF_STREAM"
    /\ mPc = "idle"
    /\ mStep = 0
    /\ mIO = <<>>
    /\ mEmitted = 0
    /\ mRaised = NoErr
    /\ mReport = NoErr
    /\ mStderr = FALSE
    /\ mExit = "running"

IterIdle ==
    /\ sMode = "idle"
    /\ sIn = <<>>
    /\ sInPos = 0
    /\ sChainPulled = 0
    /\ num_input_rows = 0
    /\ num_output_rows = 0
    /\ sOutBatches = 0
    /\ sOutRows = 0
    /\ sPc = "idle"
    /\ sErr = NoErr

VecIdle ==
    /\ vKind = "idle"
    /\ vBatches = <<>>
    /\ vResults = <<>>
    /\ vOut = <<>>
    /\ vPc = "idle"
    /\ vErr = NoErr

NoOffsets == [keys |-> <<>>, values |-> <<>>]
NoReturn == [kind |-> "none", elems |-> <<>>]
NoValues == [kind |-> "none", batches |-> <<>>, taken |-> 0]

StateIdle ==
    /\ gN = 0
    /\ gState = None
    /\ gStateRet = None
    /\ gTimedOut = FALSE
    /\ gOffsets = NoOffsets
    /\ gDeclared = 0
    /\ gRet = NoReturn
    /\ gPulled = 0
    /\ gValuesPos = 0
    /\ gTaken = 0
    /\ gChainArg = NoValues
    /\ gSeen = <<>>
    /\ gVerified = 0
    /\ gOut = <<>>
    /\ gPc = "idle"
    /\ gErr = NoErr

WinIdle ==
    /\ wArgs = <<>>
    /\ wBegin = <<>>
    /\ wEnd = <<>>
    /\ wI = 0
    /\ wCalls = <<>>
    /\ wResult = <<>>
    /\ wOut = <<>>
    /\ wPc = "idle"
    /\ wErr = NoErr

NoType == [struct |-> FALSE, fields |-> <<>>]
NoResult == [kind |-> "none", columns |-> <<>>, rows |-> 0]
NoVerdict == [err |-> NoErr, missing |-> {}, extra |-> {}]

VerifyIdle ==
    /\ pPath = "none"
    /\ pConf = FALSE
    /\ pReturnType = NoType
    /\ pResult = NoResult
    /\ pVerdict = NoVerdict
    /\ pPc = "idle"

DecodeIdle ==
    /\ dEvalType = "none"
    /\ dWire = <<>>
    /\ dPciN = 0
    /\ dHandler = "none"
    /\ dStruct = FALSE
    /\ dChainLen = 0
    /\ dReads = <<>>
    /\ dArgs = <<>>
    /\ dKwargs = {}
    /\ dUdtf = "none"
    /\ dInstances = 0
    /\ dRows = 0
    /\ dPc = "idle"
    /\ dErr = NoErr

ResIdle ==
    /\ rWire = <<>>
    /\ rPos = 0
    /\ rResources = {}
    /\ rPc = "idle"

UdfsIdle ==
    /\ qEvalType = "none"
    /\ qNumUdfs = 0
    /\ qInput = 0
    /\ qUdfs = 0
    /\ qPulled = 0
    /\ qApplied = 0
    /\ qOut = 0
    /\ qPc = "idle"
    /\ qErr = NoErr

AggIdle ==
    /\ aKind = "none"
    /\ aArgs = <<>>
    /\ aCalls = 0
    /\ aResult = 0
    /\ aOut = <<>>
    /\ aPc = "idle"

NoRes == [kind |-> "none", rows |-> <<>>]

RowsIdle ==
    /\ xSize = 0
    /\ xRes = NoRes
    /\ xPos = 0
    /\ xOut = <<>>
    /\ xPc = "idle"
    /\ xErr = NoErr

ArrowIdle ==
    /\ hMethod = "none"
    /\ hArgs = 0
    /\ hRows = 0
    /\ hReturnType = NoType
    /\ hResults = <<>>
    /\ hI = 0
    /\ hCalls = 0
    /\ hOut = <<>>
    /\ hPc = "idle"
    /\ hErr = NoErr

NoMapped == [bare |-> FALSE, vals |-> <<>>]

MapperIdle ==
    /\ kUdfs = <<>>
    /\ kCalls = <<>>
    /\ kResult = NoMapped
    /\ kPc = "idle"
    /\ kErr = NoErr

OffsIdle ==
    /\ oMode = "none"
    /\ oGroups = <<>>
    /\ oList = <<>>
    /\ oIdx = 0
    /\ oParsed = <<>>
    /\ oUsed = <<>>
    /\ oPc = "idle"

(***************************************************************************)
(* Function chains: chain (lines 79-81) and read_single_udf (557-574).     *)
(***************************************************************************)
MaxChain == 3

\* The guest callables of the model: "sum" takes any number of arguments,
\* the others exactly one (Python raises TypeError on any other count).
FnNames == {"sum", "inc", "dbl"}
ReturnTypes == {"IntegerType", "StringType"}

RECURSIVE SumSeq(_)
SumSeq(s) == IF s = <<>> THEN 0 ELSE s[1] + SumSeq(Tail(s))

\* A guest callable applied to an argument list; an exception raised by an
\* inner call (here TypeError) propagates through the outer ones.
ApplyFn(name, args) ==
    IF \E i \in 1..Len(args) : args[i] = TypeError THEN TypeError
    ELSE IF name = "sum" THEN SumSeq(args) % Modulus
    ELSE IF Len(args) # 1 THEN TypeError
    ELSE IF name = "inc" THEN (args[1] + 1) % Modulus
    ELSE (2 * args[1]) % Modulus

\* A callable value: a guest callable, or the closure chain() builds.
Prim(name) == [kind |-> "prim", name |-> name, f |-> None, g |-> None]

chain_swapped(f, g) == [kind |-> "chain", name |-> "", f |-> g, g |-> f]

\* chain(f, g) = lambda *a: g(f(*a))
chain(f, g) == [kind |-> "chain", name |-> "", f |-> f, g |-> g]

\* Calling a callable value with the argument list a: the closure passes
\* all of a to f and the single result of f to g.
RECURSIVE Call(_, _)
Call(c, a) ==
    IF c.kind = "prim" THEN ApplyFn(c.name, a)
    ELSE Call(c.g, <<Call(c.f, a)>>)

ChainInit ==
    /\ cWire \in SeqsUpTo([f : FnNames, return_type : ReturnTypes], MaxChain)
    /\ cArgs \in {<<0>>, <<2>>, <<1, 2>>, <<2, 2>>}
    /\ cI = 0
    /\ cFunc = NoFunc
    /\ cRet = Unbound
    /\ cPc = "read"
    /\ cResult = TypeError

\* One iteration of the loop of lines 558-563: read_command, then chain.
ReadChainStage ==
    /\ cPc = "read"
    /\ cI < Len(cWire)
    /\ LET f == Prim(cWire[cI + 1].f) IN
         cFunc' = IF cFunc = NoFunc THEN f ELSE chain(cFunc, f)
    /\ cRet' = cWire[cI + 1].return_type
    /\ cI' = cI + 1
    /\ UNCHANGED <<cWire, cArgs, cPc, cResult>>
    /\ UNCHANGED notChain

\* Lines 565-599 after the loop: the adapter is built around chained_func
\* with the return_type of the last iteration; with no iteration the name
\* return_type is unbound and the read fails.
BuildChain ==
    /\ cPc = "read"
    /\ cI = Len(cWire)
    /\ cPc' = IF cRet = Unbound THEN "failed" ELSE "built"
    /\ UNCHANGED <<cWire, cArgs, cI, cFunc, cRet, cResult>>
    /\ UNCHANGED notChain

\* The decoded callable is invoked on the task's arguments.
CallChain ==
    /\ cPc = "built"
    /\ cResult' = Call(cFunc, cArgs)
    /\ cPc' = "called"
    /\ UNCHANGED <<cWire, cArgs, cI, cFunc, cRet>>
    /\ UNCHANGED notChain

NextChain == ReadChainStage \/ BuildChain \/ CallChain

InitChain ==
    /\ ChainInit
    /\ UdtfIdle /\ MainIdle /\ IterIdle /\ VecIdle /\ StateIdle
    /\ WinIdle /\ VerifyIdle /\ DecodeIdle /\ ResIdle
    /\ UdfsIdle /\ AggIdle /\ RowsIdle /\ ArrowIdle
    /\ MapperIdle /\ OffsIdle

SpecChain == InitChain /\ [][NextChain]_vars

\* The left-to-right composition, written from the last stage inwards.
RECURSIVE Composed(_, _)
Composed(fs, a) ==
    IF Len(fs) = 1 THEN ApplyFn(fs[1].f, a)
    ELSE ApplyFn(fs[Len(fs)].f, <<Composed(Front(fs), a)>>)

\* C10: decoding a chain [f1..fn], n >= 1, yields a callable equal on every
\* input to fn(...f2(f1(args))...), and the return type kept is fn's.
C10_ChainIsComposition ==
    (cPc \in {"built", "called"}) =>
        /\ Len(cWire) >= 1
        /\ cRet = cWire[Len(cWire)].return_type
        /\ \A a \in {cArgs, <<1>>, <<0, 1>>} : Call(cFunc, a) = Composed(cWire, a)
        /\ cPc = "called" => cResult = Composed(cWire, cArgs)

\* A chain of three stages whose order matters was decoded and called.
C10_Witness ==
    /\ cPc = "called"
    /\ Len(cWire) = 3
    /\ cWire[1].f = "sum" /\ cWire[2].f = "inc" /\ cWire[3].f = "dbl"
    /\ cWire[1].return_type # cWire[3].return_type
    /\ Len(cArgs) = 2
    /\ cResult \in Vals

(***************************************************************************)
(* Row-based table functions: read_udtf (lines 617-929), with the          *)
(* partition-aware wrapper UDTFWithPartitions (664-739), the adapter       *)
(* wrap_udtf (858-908) and the mapper (918-927).                           *)
(***************************************************************************)
MaxRows == 5

\* Input rows: two columns, so that a key column and a non-key column can
\* change independently.
RowVals == {<<1, 1>>, <<1, 2>>, <<2, 1>>}
PciChoices == {<<>>, <<1>>, <<2>>, <<1, 2>>}

\* What one call of a handler method does: it returns rows that pass the
\* row check, raises at the call, raises while its rows are being iterated
\* (a generator method), or produces a row of the wrong field count.
Outcomes == {"rows", "raise", "raise_lazy", "badrow"}

Ev(op, inst, row) == [op |-> op, inst |-> inst, row |-> row]
RowTag(inst, m) == [inst |-> inst, m |-> m]

check_partition_boundaries_all_columns(prev, cur, pci) ==
    /\ Len(prev) > 0
    /\ \E i \in 1..Len(cur) : cur[i] # prev[i]

\* UDTFWithPartitions._check_partition_boundaries (723-736): with a
\* previous row, whether any designated column differs from it.
check_partition_boundaries(prev, cur, pci) ==
    /\ Len(prev) > 0
    /\ \E j \in 1..Len(pci) : cur[pci[j]] # prev[pci[j]]

\* The exception a handler outcome raises while the wrapper's generator (or
\* the rows of a method) is consumed by tuple(map(...)) at line 906, which
\* is outside the try of lines 884-890.
RawError(o) ==
    IF o = "badrow" THEN "UDTF_RETURN_SCHEMA_MISMATCH" ELSE "UserException"

\* The exception of a handler outcome for a method called directly by
\* evaluate (883-906): a raise at the call is wrapped by lines 886-890.
DirectError(o) ==
    IF o = "raise" THEN "UDTF_EXEC_ERROR" ELSE RawError(o)

UdtfInit ==
    /\ uRows \in SeqsUpTo(RowVals, MaxRows)
    /\ uPci \in PciChoices
    /\ uHasTerm \in BOOLEAN
    /\ uPc = "decode"
    /\ uPos = 1
    /\ uPrev = <<>>
    /\ uCur = 0
    /\ uCount = 0
    /\ uLog = <<>>
    /\ uOut = <<>>
    /\ uPending = NoErr
    /\ uErr = NoErr

\* A variant of decoding that leaves the construction of the handler to
\* the first row.
InstantiateUdtf_deferred ==
    /\ uPc = "decode"
    /\ uPc' = "rows"
    /\ UNCHANGED <<uRows, uPci, uHasTerm, uPos, uPrev, uCur, uCount, uLog, uOut,
                   uPending, uErr>>
    /\ UNCHANGED notUdtf

\* Lines 741-751: the handler is instantiated while the command is decoded,
\* directly or by UDTFWithPartitions.__init__ (line 697); a failing
\* constructor is reported as UDTF_EXEC_ERROR.
InstantiateUdtf ==
    /\ uPc = "decode"
    /\ \E ok \in BOOLEAN :
         IF ok
         THEN /\ uCur' = 1
              /\ uCount' = 1
              /\ uLog' = Append(uLog, Ev("create", 1, 0))
              /\ uPc' = "rows"
              /\ uErr' = uErr
         ELSE /\ uErr' = "UDTF_EXEC_ERROR"
              /\ uPc' = "failed"
              /\ UNCHANGED <<uCur, uCount, uLog>>
    /\ UNCHANGED <<uRows, uPci, uHasTerm, uPos, uPrev, uOut, uPending>>
    /\ UNCHANGED notUdtf

\* The effect of eval(row) of line 921 on a partitioned table function:
\* evaluate (883-906) obtains the generator of UDTFWithPartitions.eval and
\* consumes it; tOut, cOk and eOut are what the outgoing instance's
\* terminate, the constructor and the instance's eval do.  The result gives
\* the log, the rows yielded, the instance state and the exception, if any.
PartitionedEval(row, i, tOut, cOk, eOut) ==
    LET changed == check_partition_boundaries(uPrev, row, uPci)
        s0 == [log |-> uLog, rows |-> <<>>, cur |-> uCur, count |-> uCount,
               err |-> NoErr]
        \* lines 705-711
        s1 == IF ~changed THEN s0
              ELSE IF ~uHasTerm THEN [s0 EXCEPT !.err = "AttributeError"]
              ELSE LET called == Append(s0.log, Ev("terminate", s0.cur, 0)) IN
                   IF tOut # "rows"
                   THEN [s0 EXCEPT !.log = called, !.err = RawError(tOut)]
                   ELSE LET yielded == Append(called, Ev("rows", s0.cur, 0)) IN
                        IF ~cOk
                        THEN [s0 EXCEPT !.log = yielded,
                                        !.rows = <<RowTag(s0.cur, "terminate")>>,
                                        !.err = "UserException"]
                        ELSE [s0 EXCEPT
                                !.log = Append(yielded, Ev("create", s0.count + 1, 0)),
                                !.rows = <<RowTag(s0.cur, "terminate")>>,
                                !.cur = s0.count + 1,
                                !.count = s0.count + 1]
        \* lines 712-716
        s2 == IF s1.err # NoErr THEN s1
              ELSE LET called == Append(s1.log, Ev("eval", s1.cur, i)) IN
                   IF eOut # "rows"
                   THEN [s1 EXCEPT !.log = called, !.err = RawError(eOut)]
                   ELSE [s1 EXCEPT
                           !.log = Append(called, Ev("rows", s1.cur, i)),
                           !.rows = Append(s1.rows, RowTag(s1.cur, "eval"))]
    IN s2

\* eval(row) on a table function without partition columns: evaluate calls
\* the handler's eval directly.
PlainEval(row, i, eOut) ==
    LET called == Append(uLog, Ev("eval", uCur, i)) IN
    IF eOut # "rows"
    THEN [log |-> called, rows |-> <<>>, cur |-> uCur, count |-> uCount,
          err |-> DirectError(eOut)]
    ELSE [log |-> Append(called, Ev("rows", uCur, i)),
          rows |-> <<RowTag(uCur, "eval")>>, cur |-> uCur, count |-> uCount,
          err |-> NoErr]

\* One iteration of the mapper's loop (lines 920-924): the next row is
\* evaluated and the tuple of its rows yielded; an exception takes the
\* mapper to its finally clause.
MapperRow ==
    /\ uPc = "rows"
    /\ uPos <= Len(uRows)
    /\ \E tOut \in Outcomes, cOk \in BOOLEAN, eOut \in Outcomes :
         LET row == uRows[uPos]
             r == IF uPci # <<>>
                  THEN PartitionedEval(row, uPos, tOut, cOk, eOut)
                  ELSE PlainEval(row, uPos, eOut)
         IN /\ uLog' = r.log
            /\ uCur' = r.cur
            /\ uCount' = r.count
            \* line 735: _prev_arguments is set before the generator goes on
            /\ uPrev' = IF uPci # <<>> THEN row ELSE uPrev
            /\ IF r.err = NoErr
               THEN /\ uOut' = Append(uOut, r.rows)
                    /\ uPos' = uPos + 1
                    /\ UNCHANGED <<uPc, uPending>>
               ELSE /\ uPending' = r.err
                    /\ uPc' = "finally"
                    /\ UNCHANGED <<uOut, uPos>>
    /\ UNCHANGED <<uRows, uPci, uHasTerm, uErr>>
    /\ UNCHANGED notUdtf

\* The input is exhausted: the loop ends and the finally clause runs.
MapperEnd ==
    /\ uPc = "rows"
    /\ uPos > Len(uRows)
    /\ uPc' = "finally"
    /\ UNCHANGED <<uRows, uPci, uHasTerm, uPos, uPrev, uCur, uCount, uLog,
                   uOut, uPending, uErr>>
    /\ UNCHANGED notUdtf

\* A variant of the end of the mapper that calls terminate only when no
\* exception is in flight.
MapperFinally_only_on_success ==
    /\ uPc = "finally"
    /\ IF (uPci = <<>> /\ ~uHasTerm) \/ uPending # NoErr
       THEN /\ uPc' = IF uPending = NoErr THEN "done" ELSE "failed"
            /\ uErr' = uPending
            /\ UNCHANGED <<uLog, uOut>>
       ELSE IF ~uHasTerm
       THEN /\ uPc' = "failed"
            /\ uErr' = "UDTF_EXEC_ERROR"
            /\ UNCHANGED <<uLog, uOut>>
       ELSE \E tOut \in Outcomes :
            LET called == Append(uLog, Ev("terminate", uCur, 0)) IN
            IF tOut = "rows"
            THEN /\ uLog' = Append(called, Ev("rows", uCur, 0))
                 /\ uOut' = Append(uOut, <<RowTag(uCur, "terminate")>>)
                 /\ uPc' = "resume"
                 /\ uErr' = uErr
            ELSE /\ uLog' = called
                 /\ uErr' = DirectError(tOut)
                 /\ uPc' = "failed"
                 /\ uOut' = uOut
    /\ UNCHANGED <<uRows, uPci, uHasTerm, uPos, uPrev, uCur, uCount, uPending>>
    /\ UNCHANGED notUdtf

\* Lines 925-927: when terminate is not None (the wrapper always has one,
\* a bare handler only if its class defines it), the finally clause calls
\* it through evaluate and yields its tuple; an exception of that call
\* replaces the one in flight.
MapperFinally ==
    /\ uPc = "finally"
    /\ IF uPci = <<>> /\ ~uHasTerm
       THEN /\ uPc' = IF uPending = NoErr THEN "done" ELSE "failed"
            /\ uErr' = uPending
            /\ UNCHANGED <<uLog, uOut>>
       ELSE IF ~uHasTerm
       THEN \* line 719 reads an attribute the handler lacks, inside the try
            /\ uPc' = "failed"
            /\ uErr' = "UDTF_EXEC_ERROR"
            /\ UNCHANGED <<uLog, uOut>>
       ELSE \E tOut \in Outcomes :
            LET called == Append(uLog, Ev("terminate", uCur, 0)) IN
            IF tOut = "rows"
            THEN /\ uLog' = Append(called, Ev("rows", uCur, 0))
                 /\ uOut' = Append(uOut, <<RowTag(uCur, "terminate")>>)
                 /\ uPc' = "resume"
                 /\ uErr' = uErr
            ELSE /\ uLog' = called
                 /\ uErr' = DirectError(tOut)
                 /\ uPc' = "failed"
                 /\ uOut' = uOut
    /\ UNCHANGED <<uRows, uPci, uHasTerm, uPos, uPrev, uCur, uCount, uPending>>
    /\ UNCHANGED notUdtf

\* The mapper is resumed after the yield of line 927: the finally clause
\* ends, and the exception in flight, if any, leaves the mapper.
MapperResume ==
    /\ uPc = "resume"
    /\ uPc' = IF uPending = NoErr THEN "done" ELSE "failed"
    /\ uErr' = uPending
    /\ UNCHANGED <<uRows, uPci, uHasTerm, uPos, uPrev, uCur, uCount, uLog,
                   uOut, uPending>>
    /\ UNCHANGED notUdtf

NextUdtf ==
    InstantiateUdtf \/ MapperRow \/ MapperEnd \/ MapperFinally \/ MapperResume

InitUdtf ==
    /\ UdtfInit
    /\ ChainIdle /\ MainIdle /\ IterIdle /\ VecIdle /\ StateIdle
    /\ WinIdle /\ VerifyIdle /\ DecodeIdle /\ ResIdle
    /\ UdfsIdle /\ AggIdle /\ RowsIdle /\ ArrowIdle
    /\ MapperIdle /\ OffsIdle

SpecUdtf == InitUdtf /\ [][NextUdtf]_vars

\* The partition-key tuple of a row, and the number of adjacent pairs of
\* rows whose key tuples differ.
KeyTuple(row, pci) == [j \in 1..Len(pci) |-> row[pci[j]]]
Boundaries(rows, pci) ==
    Cardinality({i \in 1..(Len(rows) - 1) :
                    KeyTuple(rows[i], pci) # KeyTuple(rows[i + 1], pci)})

LogIdx(op, inst) == {i \in 1..Len(uLog) : uLog[i].op = op /\ uLog[i].inst = inst}

\* A partitioned table function whose handler defines terminate, in a run
\* in which no call has failed so far.
C1_Case ==
    /\ uPci # <<>>
    /\ uHasTerm
    /\ uPc \in {"rows", "finally", "resume", "done"}
    /\ uPending = NoErr
    /\ uErr = NoErr

\* C1: with partition-key columns, the instances created are 1 plus the
\* adjacent row pairs whose key tuples differ; at each boundary terminate is
\* called on the outgoing instance and its rows are yielded before the new
\* instance is constructed and before the row is evaluated (on the new
\* instance); terminate is called once more at the end of the input.
C1_InstancePerPartition ==
    C1_Case =>
        /\ uCount = 1 + Boundaries(SubSeq(uRows, 1, uPos - 1), uPci)
        /\ uCur = uCount
        /\ \A k \in 1..uCount : Cardinality(LogIdx("create", k)) = 1
        /\ \A k \in 1..(uCount - 1) :
             /\ Cardinality(LogIdx("terminate", k)) = 1
             /\ \A t \in LogIdx("terminate", k) :
                  /\ t + 3 <= Len(uLog)
                  /\ uLog[t + 1] = Ev("rows", k, 0)
                  /\ uLog[t + 2] = Ev("create", k + 1, 0)
                  /\ uLog[t + 3].op = "eval" /\ uLog[t + 3].inst = k + 1
                  /\ LET i == uLog[t + 3].row IN
                       /\ i > 1
                       /\ KeyTuple(uRows[i - 1], uPci) # KeyTuple(uRows[i], uPci)
                  /\ \A e \in LogIdx("eval", k) : e < t
        /\ \A i \in 1..(uPos - 1) : \E e \in 1..Len(uLog) :
             uLog[e].op = "eval" /\ uLog[e].row = i
        /\ uPc \in {"rows", "finally"} => LogIdx("terminate", uCount) = {}
        /\ uPc \in {"resume", "done"} =>
             /\ uPos = Len(uRows) + 1
             /\ LogIdx("terminate", uCount) = {Len(uLog) - 1}
             /\ uLog[Len(uLog)] = Ev("rows", uCount, 0)
             /\ Cardinality({i \in 1..Len(uLog) : uLog[i].op = "terminate"}) = uCount

\* The key sequence [1,1,2,2,1] on column 0, with the non-key column
\* changing inside a partition: 3 instances, 3 terminate calls.
C1_Witness ==
    /\ uPc = "done"
    /\ uErr = NoErr
    /\ uHasTerm
    /\ uPci = <<1>>
    /\ uRows = << <<1, 1>>, <<1, 2>>, <<2, 1>>, <<2, 1>>, <<1, 1>> >>
    /\ uCount = 3
    /\ Cardinality({i \in 1..Len(uLog) : uLog[i].op = "terminate"}) = 3
    /\ Len(uOut) = 6

\* The exception of the run: the one in flight in the finally clause, the
\* one that left the mapper afterwards.
RunError == IF uPc = "failed" THEN uErr ELSE uPending

\* C16: every exception raised inside a handler's eval or terminate
\* reaches the task runner as UdtfExecError, whether the method fails at
\* its call or while its rows are iterated, and also behind the
\* partition-aware wrapper: a run whose last handler event is a call of
\* eval or terminate that raised has failed with UDTF_EXEC_ERROR.
C16_HandlerExceptionsWrapped ==
    (/\ uPc \in {"finally", "failed"}
     /\ uLog # <<>>
     /\ uLog[Len(uLog)].op \in {"eval", "terminate"}
     /\ RunError \notin {NoErr, "UDTF_RETURN_SCHEMA_MISMATCH", "AttributeError"}) =>
        RunError = "UDTF_EXEC_ERROR"

\* C19 as written: the handler instance is constructed on the first row
\* invocation and not earlier, so that no instance exists before the first
\* input row is evaluated.
C19_InstanceBuiltAtFirstRow ==
    (uPos = 1 /\ \A e \in 1..Len(uLog) : uLog[e].op # "eval") => uCount = 0

\* C19: the handler instance is constructed while the command is decoded,
\* before any input row is read: no instance exists before decoding, one
\* instance exists once decoding is over and before the first row, and
\* that one instance is the one on which the first row is evaluated.
C19_InstanceBuiltAtDecode ==
    /\ uPc = "decode" => (uCount = 0 /\ uLog = <<>> /\ uPos = 1)
    /\ uPc \in {"rows", "finally", "resume", "done"} =>
         (uCount >= 1 /\ uLog[1] = Ev("create", 1, 0))
    /\ (uPc = "rows" /\ uPos = 1) => (uCount = 1 /\ uLog = <<Ev("create", 1, 0)>>)
    /\ \A e \in 1..Len(uLog) :
         (uLog[e].op = "eval" /\ uLog[e].row = 1) => (e = 2 /\ uLog[e].inst = 1)

\* Decoding is over, an input row is waiting and nothing was evaluated.
C19_Witness ==
    /\ uPc = "rows"
    /\ uPos = 1
    /\ Len(uRows) = 2
    /\ uCount = 1
    /\ uOut = <<>>

\* C23: once an execution or verification failure has occurred in the
\* mapper, no further result is handed to the output: while the failure of
\* the evaluation of row uPos is in flight or has left the mapper, the
\* output holds the results of the rows before it and nothing else.
C23_NothingEmittedAfterFailure ==
    uPending # NoErr => Len(uOut) = uPos - 1

\* C30: in every execution of a partitioned table function, failing ones
\* included, terminate is invoked at most once on each handler instance and
\* no instance receives an eval call after its terminate.
C30_TerminateOncePerInstance ==
    uPci # <<>> =>
        \A k \in 1..uCount :
            /\ Cardinality(LogIdx("terminate", k)) <= 1
            /\ \A t \in LogIdx("terminate", k), e \in LogIdx("eval", k) : e < t

\* The mapper has started and its finally clause is over: it ended, it is
\* suspended at the yield of its finally clause, or an exception left it.
MapperOver ==
    \/ uPc \in {"resume", "done"}
    \/ uPc = "failed" /\ uLog # <<>>

\* The calls of eval and terminate made on handler instances, in order.
HandlerCalls == SelectSeq(uLog, LAMBDA e : e.op \in {"eval", "terminate"})

\* C31: for a table function whose handler defines terminate, the mapper
\* invokes terminate exactly once after the last eval on every path on
\* which it has started: the last handler call of the run is the
\* terminate of the finally clause, on the current instance, whether the
\* input ended (an empty input included, where it is the only call) or an
\* eval raised, and that call precedes the failure of the task; before the
\* finally clause the mapper has made no terminate call of its own, so a
\* handler called without the partition wrapper sees exactly one.
C31_TerminateAfterLastEval ==
    uHasTerm =>
        /\ MapperOver =>
              /\ HandlerCalls # <<>>
              /\ HandlerCalls[Len(HandlerCalls)] = Ev("terminate", uCur, 0)
              /\ uPci = <<>> =>
                    /\ Cardinality(LogIdx("terminate", uCur)) = 1
                    /\ \A i \in 1..(Len(HandlerCalls) - 1) :
                         HandlerCalls[i].op = "eval"
              /\ Len(uRows) = 0 => HandlerCalls = <<Ev("terminate", uCur, 0)>>
        /\ (uPc \in {"rows", "finally"} /\ uPci = <<>>) =>
              LogIdx("terminate", uCur) = {}

\* The second eval raised and terminate ran before the task failed.
C31_Witness ==
    /\ uHasTerm
    /\ uPci = <<>>
    /\ uPc = "failed"
    /\ uPending = "UDTF_EXEC_ERROR"
    /\ uPos = 2
    /\ HandlerCalls = <<Ev("eval", 1, 1), Ev("eval", 1, 2), Ev("terminate", 1, 0)>>

(***************************************************************************)
(* The task runner: main (lines 1202-1334) and report_times (72-76).       *)
(* A read or a write is an entry of mIO; the markers are those of          *)
(* SpecialLengths, by name.                                                *)
(***************************************************************************)
MaxBatches == 2
MaxAccs == 2

R(tok) == [dir |-> "r", tok |-> tok]
W(tok) == [dir |-> "w", tok |-> tok]

\* The partition indexes of the model: the sentinel -1 and two real ones.
SplitIndexes == {0 - 1, 0, 1}
Signals == {"END_OF_STREAM", "END_OF_DATA_SECTION", "other"}

report_times_marker_last ==
    <<W("boot"), W("init"), W("finish"), W("TIMING_DATA")>>

\* report_times (72-76): the timing marker, then three longs.
report_times ==
    <<W("TIMING_DATA"), W("boot"), W("init"), W("finish")>>

\* Lines 1319-1325: the writes of the finishing phase up to the marker that
\* opens the accumulator section.
FinishWrites ==
    report_times \o
    <<W("MemoryBytesSpilled"), W("DiskBytesSpilled"), W("END_OF_DATA_SECTION")>>

\* send_accumulator_updates (line 1326): the number of updates, then each.
AccumulatorWrites(n) == <<W("num_updates")>> \o [i \in 1..n |-> W("update")]

MainInit ==
    /\ mSplit \in SplitIndexes
    /\ mBatches \in 0..MaxBatches
    /\ mAccs \in 0..MaxAccs
    /\ mSignal \in Signals
    /\ mPc = "split_index"
    /\ mStep = 0
    /\ mIO = <<>>
    /\ mEmitted = 0
    /\ mRaised = NoErr
    /\ mReport = NoErr
    /\ mStderr = FALSE
    /\ mExit = "running"

\* An exception raised inside the try of lines 1204-1292 in phase ph.
RaiseGuarded(ph) ==
    /\ mRaised' = ph
    /\ mPc' = "except"

\* A variant of the first read that takes -1 for a partition index like
\* any other.
ReadSplitIndex_ignoring_sentinel ==
    /\ mPc = "split_index"
    /\ mIO' = Append(mIO, R("split_index"))
    /\ mPc' = "preamble"
    /\ UNCHANGED <<mSplit, mBatches, mAccs, mSignal, mStep, mEmitted, mRaised,
                   mReport, mStderr, mExit>>
    /\ UNCHANGED notMain

\* Lines 1211-1213: the partition index is read; -1 raises SystemExit, as
\* does a failing read another exception, inside the try.
ReadSplitIndex ==
    /\ mPc = "split_index"
    /\ \E fails \in BOOLEAN :
         IF fails
         THEN /\ RaiseGuarded("split_index")
              /\ mIO' = mIO
         ELSE /\ mIO' = Append(mIO, R("split_index"))
              /\ IF mSplit = 0 - 1
                 THEN RaiseGuarded("split_index")
                 ELSE mPc' = "preamble" /\ mRaised' = mRaised
    /\ UNCHANGED <<mSplit, mBatches, mAccs, mSignal, mStep, mEmitted, mReport,
                   mStderr, mExit>>
    /\ UNCHANGED notMain

\* Lines 1215-1264: version check, barrier fields, task context, resources,
\* local properties, files and broadcasts.
ReadPreamble ==
    /\ mPc = "preamble"
    /\ \E fails \in BOOLEAN :
         IF fails
         THEN /\ RaiseGuarded("preamble")
              /\ mIO' = mIO
         ELSE /\ mIO' = Append(mIO, R("preamble"))
              /\ mPc' = "command"
              /\ mRaised' = mRaised
    /\ UNCHANGED <<mSplit, mBatches, mAccs, mSignal, mStep, mEmitted, mReport,
                   mStderr, mExit>>
    /\ UNCHANGED notMain

\* Lines 1265-1273: the evaluation mode is read, the command decoded and the
\* adapter built.
ReadCommand ==
    /\ mPc = "command"
    /\ \E fails \in BOOLEAN :
         IF fails
         THEN /\ RaiseGuarded("command")
              /\ mIO' = mIO
         ELSE /\ mIO' = Append(mIO, R("command"))
              /\ mPc' = "process"
              /\ mRaised' = mRaised
    /\ UNCHANGED <<mSplit, mBatches, mAccs, mSignal, mStep, mEmitted, mReport,
                   mStderr, mExit>>
    /\ UNCHANGED notMain

\* process (1275-1287): dump_stream pulls one result from the adapter and
\* writes it; the adapter or the write may raise.
ProcessBatch ==
    /\ mPc = "process"
    /\ mEmitted < mBatches
    /\ \E fails \in BOOLEAN :
         IF fails
         THEN /\ RaiseGuarded("process")
              /\ UNCHANGED <<mIO, mEmitted>>
         ELSE /\ mIO' = Append(mIO, W("batch"))
              /\ mEmitted' = mEmitted + 1
              /\ UNCHANGED <<mPc, mRaised>>
    /\ UNCHANGED <<mSplit, mBatches, mAccs, mSignal, mStep, mReport, mStderr,
                   mExit>>
    /\ UNCHANGED notMain

\* The adapter's output ends (or the adapter raises at its end): process
\* returns, lines 1289-1292 run and the try is left.
ProcessEnd ==
    /\ mPc = "process"
    /\ mEmitted = mBatches
    /\ \E fails \in BOOLEAN :
         IF fails
         THEN RaiseGuarded("process")
         ELSE mPc' = "finish" /\ mRaised' = mRaised
    /\ UNCHANGED <<mSplit, mBatches, mAccs, mSignal, mStep, mIO, mEmitted,
                   mReport, mStderr, mExit>>
    /\ UNCHANGED notMain

\* How the report of lines 1294-1305 can go: both writes succeed, a write
\* raises IOError (the counterpart closed the stream) or something raises
\* another exception, before or after the marker was written.
ReportOutcomes ==
    {"ok", "IOError_before", "IOError_after_marker", "other_before",
     "other_after_marker"}

ReportWrites_without_marker(o) ==
    IF o = "ok" THEN <<W("traceback")>> ELSE <<>>

\* Lines 1304-1305: the exception marker, then the traceback with its
\* length, as far as the writes get.
ReportWrites(o) ==
    IF o = "ok"
    THEN <<W("PYTHON_EXCEPTION_THROWN"), W("traceback")>>
    ELSE IF o \in {"IOError_after_marker", "other_after_marker"}
    THEN <<W("PYTHON_EXCEPTION_THROWN")>>
    ELSE <<>>

\* A variant of the handler without the exit of line 1313: main goes on
\* with its finishing phase.
ExceptHandler_falls_through ==
    /\ mPc = "except"
    /\ \E o \in ReportOutcomes :
         /\ mReport' = o
         /\ mIO' = mIO \o ReportWrites(o)
         /\ mStderr' = (o \in {"other_before", "other_after_marker"})
    /\ mPc' = "finish"
    /\ UNCHANGED <<mSplit, mBatches, mAccs, mSignal, mStep, mEmitted, mRaised,
                   mExit>>
    /\ UNCHANGED notMain

\* A variant of the handler that logs every failure of the report to the
\* error console, an IOError too.
ExceptHandler_always_logs ==
    /\ mPc = "except"
    /\ \E o \in ReportOutcomes :
         /\ mReport' = o
         /\ mIO' = mIO \o ReportWrites(o)
         /\ mStderr' = (o # "ok")
    /\ mExit' = "exit"
    /\ mPc' = "ended"
    /\ UNCHANGED <<mSplit, mBatches, mAccs, mSignal, mStep, mEmitted, mRaised>>
    /\ UNCHANGED notMain

\* Lines 1293-1313: the handler of every exception of the try.
ExceptHandler ==
    /\ mPc = "except"
    /\ \E o \in ReportOutcomes :
         /\ mReport' = o
         /\ mIO' = mIO \o ReportWrites(o)
         /\ mStderr' = (o \in {"other_before", "other_after_marker"})
    /\ mExit' = "exit"
    /\ mPc' = "ended"
    /\ UNCHANGED <<mSplit, mBatches, mAccs, mSignal, mStep, mEmitted, mRaised>>
    /\ UNCHANGED notMain

\* Lines 1319-1325, one write at a time; these statements are after the
\* try, so a failing write leaves main as an uncaught exception.
FinishWrite ==
    /\ mPc = "finish"
    /\ mStep < Len(FinishWrites)
    /\ \E fails \in BOOLEAN :
         IF fails
         THEN /\ mRaised' = "finish"
              /\ mExit' = "uncaught"
              /\ mPc' = "ended"
              /\ UNCHANGED <<mIO, mStep>>
         ELSE /\ mIO' = Append(mIO, FinishWrites[mStep + 1])
              /\ mStep' = mStep + 1
              /\ UNCHANGED <<mRaised, mExit, mPc>>
    /\ UNCHANGED <<mSplit, mBatches, mAccs, mSignal, mEmitted, mReport, mStderr>>
    /\ UNCHANGED notMain

\* Line 1326: the accumulator updates are sent.
SendAccumulators ==
    /\ mPc = "finish"
    /\ mStep = Len(FinishWrites)
    /\ \E fails \in BOOLEAN :
         IF fails
         THEN /\ mRaised' = "finish"
              /\ mExit' = "uncaught"
              /\ mPc' = "ended"
              /\ mIO' = mIO
         ELSE /\ mIO' = mIO \o AccumulatorWrites(mAccs)
              /\ mPc' = "handshake"
              /\ UNCHANGED <<mRaised, mExit>>
    /\ UNCHANGED <<mSplit, mBatches, mAccs, mSignal, mStep, mEmitted, mReport,
                   mStderr>>
    /\ UNCHANGED notMain

\* A variant of the handshake that echoes END_OF_STREAM and returns whatever
\* it read.
Handshake_always_echo ==
    /\ mPc = "handshake"
    /\ \E fails \in BOOLEAN :
         IF fails
         THEN /\ mRaised' = "finish"
              /\ mExit' = "uncaught"
              /\ mIO' = mIO
         ELSE /\ mRaised' = mRaised
              /\ mIO' = mIO \o <<R(mSignal), W("END_OF_STREAM")>>
              /\ mExit' = "returned"
    /\ mPc' = "ended"
    /\ UNCHANGED <<mSplit, mBatches, mAccs, mSignal, mStep, mEmitted, mReport,
                   mStderr>>
    /\ UNCHANGED notMain

\* Lines 1328-1334: the counterpart's signal is read and answered.
Handshake ==
    /\ mPc = "handshake"
    /\ \E fails \in BOOLEAN :
         IF fails
         THEN /\ mRaised' = "finish"
              /\ mExit' = "uncaught"
              /\ mIO' = mIO
         ELSE /\ mRaised' = mRaised
              /\ IF mSignal = "END_OF_STREAM"
                 THEN /\ mIO' = mIO \o <<R(mSignal), W("END_OF_STREAM")>>
                      /\ mExit' = "returned"
                 ELSE /\ mIO' = mIO \o <<R(mSignal), W("END_OF_DATA_SECTION")>>
                      /\ mExit' = "exit"
    /\ mPc' = "ended"
    /\ UNCHANGED <<mSplit, mBatches, mAccs, mSignal, mStep, mEmitted, mReport,
                   mStderr>>
    /\ UNCHANGED notMain

NextMain ==
    \/ ReadSplitIndex \/ ReadPreamble \/ ReadCommand
    \/ ProcessBatch \/ ProcessEnd \/ ExceptHandler
    \/ FinishWrite \/ SendAccumulators \/ Handshake

InitMain ==
    /\ MainInit
    /\ ChainIdle /\ UdtfIdle /\ IterIdle /\ VecIdle /\ StateIdle
    /\ WinIdle /\ VerifyIdle /\ DecodeIdle /\ ResIdle
    /\ UdfsIdle /\ AggIdle /\ RowsIdle /\ ArrowIdle
    /\ MapperIdle /\ OffsIdle

SpecMain == InitMain /\ [][NextMain]_vars

IsPrefix(s, t) == Len(s) <= Len(t) /\ s = SubSeq(t, 1, Len(s))
Writes(io) == SelectSeq(io, LAMBDA e : e.dir = "w")
MarkerWritten == \E i \in 1..Len(mIO) : mIO[i] = W("PYTHON_EXCEPTION_THROWN")
NonZeroExit == mExit \in {"exit", "uncaught"}

\* The statement of C2 as made, read with the report's own writes
\* succeeding: every failure of a task, the finishing phase included, ends
\* with the exception marker and the traceback written and a non-zero exit.
C2_AnyFailureReported ==
    (mPc = "ended" /\ mRaised # NoErr /\ mReport \in {NoErr, "ok"}) =>
        /\ NonZeroExit
        /\ Len(mIO) >= 2
        /\ SubSeq(mIO, Len(mIO) - 1, Len(mIO)) =
             <<W("PYTHON_EXCEPTION_THROWN"), W("traceback")>>

\* C2 (amended): a failure raised inside the guarded region (preamble,
\* command decoding, adapter building, streaming) is caught: the process
\* exits through sys.exit(-1) and, when the report's own writes succeed,
\* the exception marker followed by the traceback is the last output; a
\* failure of the finishing phase is not caught, leaves main as an
\* uncaught exception and writes no exception marker.
C2_GuardedFailureReported ==
    (mPc = "ended" /\ mRaised # NoErr) =>
        /\ NonZeroExit
        /\ mRaised # "finish" =>
             /\ mExit = "exit"
             /\ mReport # NoErr
             /\ mReport = "ok" =>
                  /\ Len(mIO) >= 2
                  /\ SubSeq(mIO, Len(mIO) - 1, Len(mIO)) =
                       <<W("PYTHON_EXCEPTION_THROWN"), W("traceback")>>
        /\ mRaised = "finish" =>
             /\ mExit = "uncaught"
             /\ mReport = NoErr
             /\ ~MarkerWritten

\* A failure while streaming, after one batch was written, was reported.
C2_Witness ==
    /\ mPc = "ended"
    /\ mRaised = "process"
    /\ mEmitted = 1
    /\ mReport = "ok"
    /\ mExit = "exit"
    /\ MarkerWritten

\* What a task without failure puts on the streams after its command.
C3_Expected ==
    [i \in 1..mBatches |-> W("batch")]
    \o <<W("TIMING_DATA"), W("boot"), W("init"), W("finish"),
         W("MemoryBytesSpilled"), W("DiskBytesSpilled"),
         W("END_OF_DATA_SECTION"), W("num_updates")>>
    \o [i \in 1..mAccs |-> W("update")]
    \o <<R(mSignal),
         W(IF mSignal = "END_OF_STREAM" THEN "END_OF_STREAM"
           ELSE "END_OF_DATA_SECTION")>>

\* The reads of the preamble and the command, which precede all output.
C3_Reads == <<R("split_index"), R("preamble"), R("command")>>

\* C3: once the pipeline has completed without error, what follows the last
\* result batch is, in this order, the timing marker and its three longs,
\* the two spill counters, the end-of-data marker and the accumulator
\* updates; only then is the counterpart's signal read and answered.
C3_FinishOrder ==
    /\ (mPc \in {"finish", "handshake"} \/ (mPc = "ended" /\ mRaised \in {NoErr, "finish"}))
         => IsPrefix(mIO, C3_Reads \o C3_Expected)
    /\ (mPc = "finish" /\ mStep = 0) => Writes(mIO) = [i \in 1..mBatches |-> W("batch")]
    /\ (mPc = "ended" /\ mRaised = NoErr) => mIO = C3_Reads \o C3_Expected

\* A task with two batches and two accumulator updates ended cleanly.
C3_Witness ==
    /\ mExit = "returned"
    /\ mBatches = 2
    /\ mAccs = 2
    /\ Len(Writes(mIO)) = 13

\* The fields main has read from the input stream so far.
Reads(io) == SelectSeq(io, LAMBDA e : e.dir = "r")

\* C11: a task whose partition index is -1 aborts without reading any
\* further field: the partition index is the only read of the task, so
\* neither the version check and the task metadata of the preamble nor the
\* evaluation mode and the command are read, and the task ends by exiting.
C11_SentinelReadsNothingMore ==
    mSplit = 0 - 1 =>
        /\ IsPrefix(Reads(mIO), <<R("split_index")>>)
        /\ mPc \in {"split_index", "except", "ended"}
        /\ mPc = "ended" => mExit = "exit"
        /\ (mPc # "split_index" /\ Reads(mIO) # <<>>) => mRaised = "split_index"

\* The partition index -1 was read and the task has ended.
C11_Witness ==
    /\ mSplit = 0 - 1
    /\ mPc = "ended"
    /\ Reads(mIO) = <<R("split_index")>>
    /\ mExit = "exit"

\* The task went through the finishing phase and its handshake without a
\* failing read or write.
HandshakeDone == mPc = "ended" /\ mRaised = NoErr

\* What main did from the accumulator updates on.
AfterAccumulators(io) ==
    SubSeq(io, Len(io) - Len(AccumulatorWrites(mAccs)) - 1, Len(io))

\* C24: after the accumulator updates the worker reads one integer; when it
\* is END_OF_STREAM the worker writes END_OF_STREAM and returns normally, and
\* when it is any other value the worker writes END_OF_DATA_SECTION and
\* exits with a non-zero status.  The read and the answer are the last two
\* operations of the task, and the worker returns normally in no other case.
C24_HandshakeAnswer ==
    /\ HandshakeDone =>
          /\ Len(Reads(mIO)) = 4
          /\ AfterAccumulators(mIO) =
                AccumulatorWrites(mAccs) \o
                <<R(mSignal),
                  W(IF mSignal = "END_OF_STREAM"
                    THEN "END_OF_STREAM" ELSE "END_OF_DATA_SECTION")>>
          /\ mExit = (IF mSignal = "END_OF_STREAM" THEN "returned" ELSE "exit")
    /\ mExit = "returned" => HandshakeDone /\ mSignal = "END_OF_STREAM"

\* A handshake that read a value other than END_OF_STREAM.
C24_Witness ==
    /\ HandshakeDone
    /\ mSignal = "other"
    /\ mIO[Len(mIO)] = W("END_OF_DATA_SECTION")
    /\ mExit = "exit"

\* C25: when writing the error report itself fails, an IOError makes the
\* worker exit with a non-zero status with nothing sent to the error
\* console, any other cause is logged to the error console before the
\* non-zero exit, and in both cases no timing record is written.
C25_FailedReport ==
    (mPc = "ended" /\ mReport \in ReportOutcomes \ {"ok"}) =>
        /\ mExit = "exit"
        /\ mStderr = (mReport \in {"other_before", "other_after_marker"})
        /\ \A i \in 1..Len(mIO) : mIO[i] # W("TIMING_DATA")

\* A report that failed with an IOError after the exception marker.
C25_Witness ==
    /\ mPc = "ended"
    /\ mReport = "IOError_after_marker"
    /\ ~mStderr
    /\ mExit = "exit"

\* C34: when the partition index read is the sentinel -1, the abort goes
\* through the top-level handler: the task ends there with a non-zero
\* exit, the report's writes succeeding the exception marker and the
\* length-prefixed traceback are its whole output, and in no case is a
\* timing record or an end-of-data marker written.
C34_SentinelAbortReported ==
    (mSplit = 0 - 1 /\ mPc = "ended" /\ Reads(mIO) # <<>>) =>
        /\ mRaised = "split_index"
        /\ mReport # NoErr
        /\ mExit = "exit"
        /\ mReport = "ok" =>
              mIO = <<R("split_index"), W("PYTHON_EXCEPTION_THROWN"), W("traceback")>>
        /\ \A i \in 1..Len(mIO) :
              mIO[i] \notin {W("TIMING_DATA"), W("END_OF_DATA_SECTION")}

\* The sentinel was read and the abort reported.
C34_Witness ==
    /\ mSplit = 0 - 1
    /\ mPc = "ended"
    /\ mReport = "ok"
    /\ Len(Writes(mIO)) = 2
    /\ MarkerWritten

\* The position of the exception marker in the task's reads and writes.
MarkerAt == CHOOSE i \in 1..Len(mIO) : mIO[i] = W("PYTHON_EXCEPTION_THROWN")

\* C35 as written: the output never carries both the exception marker and
\* the timing record, the records of the finishing phase are written only
\* after the guarded pipeline completed without raising, and once the
\* exception marker is written nothing else is written before the process
\* exits: the marker stays the last thing on the streams.
C35_NothingAfterMarker ==
    /\ ~(MarkerWritten /\ \E i \in 1..Len(mIO) : mIO[i] = W("TIMING_DATA"))
    /\ (\E i \in 1..Len(mIO), j \in 1..Len(FinishWrites) :
            mIO[i] = FinishWrites[j]) =>
          (mReport = NoErr /\ mRaised \in {NoErr, "finish"})
    /\ MarkerWritten =>
          (mPc = "ended" /\ mExit = "exit" /\ MarkerAt = Len(mIO))

\* C35: the output of a task never carries both the exception marker and
\* the timing record.  The timing record, the spill counters and the
\* end-of-data marker are written only after the whole guarded pipeline
\* completed without raising, every batch written; and once the exception
\* marker is written the handler has run: only the traceback of the report
\* follows it, and the process exits.
C35_MarkerExcludesTiming ==
    /\ ~(MarkerWritten /\ \E i \in 1..Len(mIO) : mIO[i] = W("TIMING_DATA"))
    /\ (\E i \in 1..Len(mIO), j \in 1..Len(FinishWrites) :
            mIO[i] = FinishWrites[j]) =>
          /\ mReport = NoErr
          /\ mRaised \in {NoErr, "finish"}
          /\ mEmitted = mBatches
          /\ mPc \in {"finish", "handshake", "ended"}
    /\ MarkerWritten =>
          /\ mPc = "ended"
          /\ mExit = "exit"
          /\ mRaised \notin {NoErr, "finish"}
          /\ SubSeq(mIO, MarkerAt + 1, Len(mIO)) \in {<<>>, <<W("traceback")>>}

\* A failure while streaming, after one batch was written, was reported
\* and nothing of the finishing phase was written.
C35_Witness ==
    /\ mPc = "ended"
    /\ mEmitted = 1
    /\ mBatches = 2
    /\ mReport = "ok"
    /\ mIO[Len(mIO)] = W("traceback")
    /\ mIO[Len(mIO) - 1] = W("PYTHON_EXCEPTION_THROWN")

(***************************************************************************)
(* The iterator modes: read_udfs.func (lines 1028-1075).  The chain is a   *)
(* guest generator: between two of its results it may pull any number of   *)
(* input batches through map_batch.                                        *)
(***************************************************************************)
MaxInBatches == 2
MaxBatchLen == 3
MaxOutBatches == 3

OverrunAssert_disabled(mode, out, inp) == TRUE

\* The assertion of lines 1052-1054.
OverrunAssert(mode, out, inp) == mode = "map_iter" \/ out <= inp

EndCheck_length_only(unread, out, inp) ==
    IF out # inp THEN "RESULT_LENGTH_MISMATCH_FOR_SCALAR_ITER_PANDAS_UDF"
    ELSE NoErr

\* Lines 1058-1075: the exception raised once the chain's output has ended,
\* given whether next(iterator) found a batch; inp counts that batch too.
EndCheck(unread, out, inp) ==
    IF unread THEN "STOP_ITERATION_OCCURRED_FROM_SCALAR_ITER_PANDAS_UDF"
    ELSE IF out # inp THEN "RESULT_LENGTH_MISMATCH_FOR_SCALAR_ITER_PANDAS_UDF"
    ELSE NoErr

IterInit ==
    /\ sMode \in {"scalar_iter", "map_iter"}
    /\ sIn \in SeqsUpTo(0..MaxBatchLen, MaxInBatches)
    /\ sInPos = 0
    /\ sChainPulled = 0
    /\ num_input_rows = 0
    /\ num_output_rows = 0
    /\ sOutBatches = 0
    /\ sOutRows = 0
    /\ sPc = "loop"
    /\ sErr = NoErr

\* The chain takes the next input batch: map_batch (1031-1039) counts its
\* rows before handing it over.
ChainPull ==
    /\ sPc = "loop"
    /\ sInPos < Len(sIn)
    /\ sInPos' = sInPos + 1
    /\ sChainPulled' = sChainPulled + 1
    /\ num_input_rows' = num_input_rows + sIn[sInPos + 1]
    /\ UNCHANGED <<sMode, sIn, num_output_rows, sOutBatches, sOutRows, sPc, sErr>>
    /\ UNCHANGED notIter

\* The chain produces a result of n rows: one iteration of the loop of
\* lines 1045-1055.
ChainYield ==
    /\ sPc = "loop"
    /\ sOutBatches < MaxOutBatches
    /\ \E n \in 0..MaxBatchLen :
         /\ num_output_rows' = num_output_rows + n
         /\ IF OverrunAssert(sMode, num_output_rows + n, num_input_rows)
            THEN /\ sOutBatches' = sOutBatches + 1
                 /\ sOutRows' = sOutRows + n
                 /\ UNCHANGED <<sPc, sErr>>
            ELSE /\ sPc' = "failed"
                 /\ sErr' = "AssertionError"
                 /\ UNCHANGED <<sOutBatches, sOutRows>>
    /\ UNCHANGED <<sMode, sIn, sInPos, sChainPulled, num_input_rows>>
    /\ UNCHANGED notIter

\* The chain raises, or produces an element verify_element (200-216)
\* rejects: the exception leaves func from inside the loop.
ChainFails ==
    /\ sPc = "loop"
    /\ \E e \in {"UserException", "UDF_RETURN_TYPE"} : sErr' = e
    /\ sPc' = "failed"
    /\ UNCHANGED <<sMode, sIn, sInPos, sChainPulled, num_input_rows,
                   num_output_rows, sOutBatches, sOutRows>>
    /\ UNCHANGED notIter

\* The chain's output ends: lines 1057-1075.  In scalar-iterator mode
\* next(iterator) is tried, which passes a batch still unread through
\* map_batch.
ChainEnds ==
    /\ sPc = "loop"
    /\ LET unread == sInPos < Len(sIn)
           probed == sMode = "scalar_iter" /\ unread
           inp == IF probed THEN num_input_rows + sIn[sInPos + 1]
                  ELSE num_input_rows
           e == IF sMode = "scalar_iter"
                THEN EndCheck(unread, num_output_rows, inp) ELSE NoErr
       IN /\ sInPos' = IF probed THEN sInPos + 1 ELSE sInPos
          /\ num_input_rows' = inp
          /\ sErr' = e
          /\ sPc' = IF e = NoErr THEN "done" ELSE "failed"
    /\ UNCHANGED <<sMode, sIn, sChainPulled, num_output_rows, sOutBatches, sOutRows>>
    /\ UNCHANGED notIter

NextIter == ChainPull \/ ChainYield \/ ChainFails \/ ChainEnds

InitIter ==
    /\ IterInit
    /\ ChainIdle /\ UdtfIdle /\ MainIdle /\ VecIdle /\ StateIdle
    /\ WinIdle /\ VerifyIdle /\ DecodeIdle /\ ResIdle
    /\ UdfsIdle /\ AggIdle /\ RowsIdle /\ ArrowIdle
    /\ MapperIdle /\ OffsIdle

SpecIter == InitIter /\ [][NextIter]_vars

\* C4: in scalar-iterator mode, as soon as the rows produced by the chain
\* exceed the rows of the input batches it has consumed, func fails with
\* the overrun assertion: the overrunning result is not yielded (the rows
\* yielded never exceed the rows consumed) and no further batch is read.
C4_OverrunFailsFast ==
    /\ [](sMode = "scalar_iter" =>
            /\ sOutRows <= num_input_rows
            /\ (num_output_rows > num_input_rows) =>
                 (sPc = "failed" /\ sErr = "AssertionError")
            /\ sErr = "AssertionError" =>
                 /\ num_output_rows > num_input_rows
                 /\ sOutRows <= num_input_rows
                 /\ sInPos = sChainPulled)
    /\ [][sErr = "AssertionError" =>
            (sInPos' = sInPos /\ sOutBatches' = sOutBatches)]_vars

\* Five input rows consumed, and the result that takes the output to six
\* rows fails.
C4_Witness ==
    /\ sMode = "scalar_iter"
    /\ sErr = "AssertionError"
    /\ num_input_rows = 5
    /\ num_output_rows = 6
    /\ sOutRows = 3

\* C5: a scalar-iterator task ends without error only if, when the chain's
\* output ends, no input batch is unread and the output rows equal the
\* input rows; with a batch unread it fails with the stop-iteration error
\* whatever the totals, and otherwise with the length mismatch when the
\* totals differ.
C5_EndOfOutputChecks ==
    (sMode = "scalar_iter" /\ sPc \in {"done", "failed"}
        /\ sErr \notin {"AssertionError", "UserException", "UDF_RETURN_TYPE"}) =>
        /\ sChainPulled < Len(sIn) =>
             sErr = "STOP_ITERATION_OCCURRED_FROM_SCALAR_ITER_PANDAS_UDF"
        /\ (sChainPulled = Len(sIn) /\ num_output_rows # num_input_rows) =>
             sErr = "RESULT_LENGTH_MISMATCH_FOR_SCALAR_ITER_PANDAS_UDF"
        /\ sPc = "done" <=>
             (sChainPulled = Len(sIn) /\ num_output_rows = SumSeq(sIn))
        /\ sPc = "done" => (sErr = NoErr /\ sInPos = Len(sIn) /\ sOutRows = SumSeq(sIn))

\* The chain stopped with a batch unread although its output already had
\* as many rows as the whole input: the stop-iteration error, not success.
C5_Witness ==
    /\ sMode = "scalar_iter"
    /\ sErr = "STOP_ITERATION_OCCURRED_FROM_SCALAR_ITER_PANDAS_UDF"
    /\ sIn = <<2, 0>>
    /\ sChainPulled = 1
    /\ num_output_rows = 2

\* C32: in a scalar-iterator task the rows emitted so far never exceed the
\* rows of the input batches pulled so far, and neither does the running
\* output count unless the task has just failed on the overrun; so the
\* final length mismatch is raised only with fewer output rows than input
\* rows.  In the map-iterator modes nothing relates the two counts and
\* nothing is checked when the output ends: such a task fails only on an
\* exception of the chain or of the verification of an element.
C32_OutputNeverAhead ==
    /\ sMode = "scalar_iter" =>
          /\ sOutRows <= num_input_rows
          /\ sErr # "AssertionError" => num_output_rows = sOutRows
          /\ sErr = "RESULT_LENGTH_MISMATCH_FOR_SCALAR_ITER_PANDAS_UDF" =>
                num_output_rows < num_input_rows
    /\ sMode = "map_iter" =>
          /\ sErr \in {NoErr, "UserException", "UDF_RETURN_TYPE"}
          /\ num_output_rows = sOutRows
          /\ sInPos = sChainPulled

\* A scalar-iterator task emitted two rows for three input rows and failed
\* with the length mismatch when its output ended.
C32_Witness ==
    /\ sMode = "scalar_iter"
    /\ sErr = "RESULT_LENGTH_MISMATCH_FOR_SCALAR_ITER_PANDAS_UDF"
    /\ sOutBatches = 1
    /\ num_output_rows = 2
    /\ num_input_rows = 3

(***************************************************************************)
(* Vectorized batch adapters: wrap_scalar_pandas_udf (lines 92-123) and    *)
(* wrap_arrow_batch_udf (126-182).  A chain result is described by whether *)
(* it exposes a length and by that length; a checked value is either the   *)
(* result or the exception raised.                                         *)
(***************************************************************************)
MaxVecBatches == 2
MaxVecLen == 2

Res(haslen, n) == [haslen |-> haslen, len |-> n]
Ok(r) == [err |-> NoErr, val |-> r]
Raise(e) == [err |-> e, val |-> Res(FALSE, 0)]

\* What a chain can return for a batch: an object without __len__ or a
\* value of some length.
ChainResults == {Res(FALSE, 0)} \cup {Res(TRUE, n) : n \in 0..MaxVecLen}

\* verify_result_type (95-105, 154-164).
verify_result_type(result) ==
    IF ~result.haslen THEN Raise("UDF_RETURN_TYPE") ELSE Ok(result)

verify_result_length_at_most(result, length) ==
    IF ~result.haslen THEN Raise("TypeError")
    ELSE IF result.len > length THEN Raise("SCHEMA_MISMATCH_FOR_PANDAS_UDF")
    ELSE Ok(result)

\* verify_result_length (107-116, 166-175); len() of an object without
\* __len__ is a TypeError.
verify_result_length(result, length) ==
    IF ~result.haslen THEN Raise("TypeError")
    ELSE IF result.len # length THEN Raise("SCHEMA_MISMATCH_FOR_PANDAS_UDF")
    ELSE Ok(result)

\* The lambda of lines 118-123 and 177-182 applied to a chain result and a
\* batch of n rows: the type check is evaluated first, then the length of
\* the first argument, then the length check.
VectorizedAdapter(result, n) ==
    LET typed == verify_result_type(result) IN
    IF typed.err # NoErr THEN typed ELSE verify_result_length(typed.val, n)

\* evaluate (142-152): the Arrow-optimized adapter calls the chain once per
\* row and collects the results in a series, one element per row.
ArrowEvaluate(n) == Res(TRUE, n)

VecInit ==
    /\ vKind \in {"scalar_pandas", "arrow_batch"}
    /\ vBatches \in SeqsUpTo(0..MaxVecLen, MaxVecBatches)
    /\ vResults = <<>>
    /\ vOut = <<>>
    /\ vPc = "run"
    /\ vErr = NoErr

\* The adapter is applied to the next batch; the chain returns a value, or
\* raises.
ApplyVectorized ==
    /\ vPc = "run"
    /\ Len(vResults) < Len(vBatches)
    /\ LET n == vBatches[Len(vResults) + 1] IN
       \E raises \in BOOLEAN, chosen \in ChainResults :
         LET result == IF vKind = "arrow_batch" THEN ArrowEvaluate(n) ELSE chosen
             checked == IF raises THEN Raise("UserException")
                        ELSE VectorizedAdapter(result, n)
         IN /\ vResults' = Append(vResults, IF raises THEN Res(FALSE, 0) ELSE result)
            /\ vErr' = checked.err
            /\ IF checked.err = NoErr
               THEN vOut' = Append(vOut, checked.val.len) /\ vPc' = vPc
               ELSE vOut' = vOut /\ vPc' = "failed"
    /\ UNCHANGED <<vKind, vBatches>>
    /\ UNCHANGED notVec

\* The input is exhausted.
VectorizedDone ==
    /\ vPc = "run"
    /\ Len(vResults) = Len(vBatches)
    /\ vPc' = "done"
    /\ UNCHANGED <<vKind, vBatches, vResults, vOut, vErr>>
    /\ UNCHANGED notVec

NextVec == ApplyVectorized \/ VectorizedDone

InitVec ==
    /\ VecInit
    /\ ChainIdle /\ UdtfIdle /\ MainIdle /\ IterIdle /\ StateIdle
    /\ WinIdle /\ VerifyIdle /\ DecodeIdle /\ ResIdle
    /\ UdfsIdle /\ AggIdle /\ RowsIdle /\ ArrowIdle
    /\ MapperIdle /\ OffsIdle

SpecVec == InitVec /\ [][NextVec]_vars

\* C6: a chain result whose length differs from the batch's makes the
\* adapter fail with SchemaMismatch and return nothing for the batch; a
\* result without a length fails with UdfReturnTypeMismatch, decided before
\* any length is compared; every result returned has the batch's length.
C6_LengthVerified ==
    /\ Len(vOut) = IF vPc = "failed" THEN Len(vResults) - 1 ELSE Len(vResults)
    /\ \A i \in 1..Len(vOut) : vOut[i] = vBatches[i] /\ vResults[i] = Res(TRUE, vOut[i])
    /\ \A i \in 1..Len(vResults) :
         LET r == vResults[i] IN
         /\ (r.haslen /\ r.len # vBatches[i]) =>
              (i = Len(vResults) /\ vPc = "failed"
               /\ vErr = "SCHEMA_MISMATCH_FOR_PANDAS_UDF")
         /\ (~r.haslen /\ vErr # "UserException") =>
              (i = Len(vResults) /\ vPc = "failed" /\ vErr = "UDF_RETURN_TYPE")

\* After one good batch, a result shorter than its batch was refused.
C6_Witness ==
    /\ vKind = "scalar_pandas"
    /\ vBatches = <<1, 2>>
    /\ vResults = <<Res(TRUE, 1), Res(TRUE, 1)>>
    /\ vErr = "SCHEMA_MISMATCH_FOR_PANDAS_UDF"
    /\ vOut = <<1>>

(***************************************************************************)
(* Grouped map with state: read_udfs.mapper for                            *)
(* SQL_GROUPED_MAP_PANDAS_UDF_WITH_STATE and the adapter built by           *)
(* wrap_grouped_map_pandas_udf_with_state.  One group is followed from the *)
(* mapper's peek at its first batch to the end of the returned sequence.   *)
(***************************************************************************)
MaxGroupBatches == 2
MaxStateOut == 2

\* The column labels of every batch of the group; the offsets index them
\* (written 1-based here, 0-based in the source).
Cols == <<"k", "a", "b">>
OffsetChoices == {[keys |-> <<1>>, values |-> <<2, 3>>],
                  [keys |-> <<1, 2>>, values |-> <<3>>]}
DeclaredCounts == {1, 2}
ColCounts == {0, 1, 2}
RowCounts == {0, 1}

\* What the chain may yield: a DataFrame of some shape, or something else.
DataFrames == [isdf : {TRUE}, cols : ColCounts, rows : RowCounts]
NotADataFrame == [isdf |-> FALSE, cols |-> 0, rows |-> 0]
Elements == DataFrames \cup {NotADataFrame}

\* What the call of the chain may give: it raises, or returns a DataFrame,
\* something that cannot be iterated, or an iterable of elements.
Returns ==
    {[kind |-> k, elems |-> <<>>] : k \in {"raises", "DataFrame", "not_iterable"}}
    \cup [kind : {"iterable"}, elems : SeqsUpTo(Elements, MaxStateOut)]

\* [x[o] for o in parsed_offsets[0][1]]: the value columns of a batch.
ValueSeries(offsets) == [j \in 1..Len(offsets.values) |-> Cols[offsets.values[j]]]

\* pandas DataFrame.empty: true when any axis has length zero.
DataFrameEmpty(result) == result.rows = 0 \/ result.cols = 0

\* A variant of the adapter's values that never touches the value sequence
\* when the state has timed out.
Values_without_next(timedOut, series) ==
    IF timedOut
    THEN [kind |-> "list", batches |-> <<[cols |-> series, rows |-> 0]>>, taken |-> 0]
    ELSE [kind |-> "generator", batches |-> <<>>, taken |-> 0]

\* Lines 390-396: the values given to the chain, and the number of elements
\* the adapter takes from the value sequence to build them.
Values(timedOut, series) ==
    IF timedOut
    THEN [kind |-> "list", batches |-> <<[cols |-> series, rows |-> 0]>>, taken |-> 1]
    ELSE [kind |-> "generator", batches |-> <<>>, taken |-> 0]

\* Lines 400-423.
\* The state handles of the model: the objects a[1] may refer to.
StateHandles == {"state_1", "state_2"}

verify_element(result, declared) ==
    IF ~result.isdf THEN "UDF_RETURN_TYPE"
    ELSE IF ~(result.cols = declared \/ (result.cols = 0 /\ DataFrameEmpty(result)))
         THEN "RESULT_LENGTH_MISMATCH_FOR_PANDAS_UDF"
         ELSE NoErr

StateInit ==
    /\ gN \in 1..MaxGroupBatches
    /\ gState \in StateHandles
    /\ gStateRet = None
    /\ gTimedOut \in BOOLEAN
    /\ gOffsets \in OffsetChoices
    /\ gDeclared \in DeclaredCounts
    /\ gRet \in Returns
    /\ gPulled = 0
    /\ gValuesPos = 0
    /\ gTaken = 0
    /\ gChainArg = NoValues
    /\ gSeen = <<>>
    /\ gVerified = 0
    /\ gOut = <<>>
    /\ gPc = "mapper"
    /\ gErr = NoErr

\* A variant of the invocation without the check of line 425: a returned
\* DataFrame is taken for the iterable of the chain's output.
MapperInvoke_DataFrame_unchecked ==
    /\ gPc = "mapper"
    /\ LET values == Values(gTimedOut, ValueSeries(gOffsets)) IN
       /\ gPulled' = 1
       /\ gValuesPos' = values.taken
       /\ gTaken' = values.taken
       /\ gChainArg' = values
    /\ gErr' = CASE gRet.kind = "raises" -> "UserException"
                 [] gRet.kind = "not_iterable" -> "UDF_RETURN_TYPE"
                 [] OTHER -> NoErr
    /\ gPc' = IF gRet.kind \in {"iterable", "DataFrame"} THEN "iter" ELSE "failed"
    /\ gStateRet' = IF gRet.kind \in {"iterable", "DataFrame"}
                    THEN gState ELSE gStateRet
    /\ UNCHANGED <<gN, gState, gTimedOut, gOffsets, gDeclared, gRet, gSeen,
                   gVerified, gOut>>
    /\ UNCHANGED notState

\* mapper (1147-1161) and wrapped (388-447): the first batch is peeked
\* through the tee for the key, the values are built, the chain is called
\* and its return value is checked to be an iterable and not a DataFrame.
MapperInvoke ==
    /\ gPc = "mapper"
    /\ LET values == Values(gTimedOut, ValueSeries(gOffsets)) IN
       /\ gPulled' = 1
       /\ gValuesPos' = values.taken
       /\ gTaken' = values.taken
       /\ gChainArg' = values
    /\ gErr' = CASE gRet.kind = "raises" -> "UserException"
                 [] gRet.kind \in {"DataFrame", "not_iterable"} -> "UDF_RETURN_TYPE"
                 [] OTHER -> NoErr
    /\ gPc' = IF gRet.kind = "iterable" THEN "iter" ELSE "failed"
    \* lines 444-447: the state given is returned with the lazy sequence
    /\ gStateRet' = IF gRet.kind = "iterable" THEN gState ELSE gStateRet
    /\ UNCHANGED <<gN, gState, gTimedOut, gOffsets, gDeclared, gRet, gSeen,
                   gVerified, gOut>>
    /\ UNCHANGED notState

\* A variant without the tee: the peek for the key has taken the first
\* batch away, and the values start with the second.
ChainTakesValue_after_peek ==
    /\ gPc = "iter"
    /\ gChainArg.kind = "generator"
    /\ gValuesPos + 1 < gN
    /\ gValuesPos' = gValuesPos + 1
    /\ gPulled' = gValuesPos + 2
    /\ gSeen' = Append(gSeen, gValuesPos + 2)
    /\ UNCHANGED <<gN, gState, gStateRet, gTimedOut, gOffsets, gDeclared, gRet,
                   gTaken, gChainArg, gVerified, gOut, gPc, gErr>>
    /\ UNCHANGED notState

\* The chain takes the next element of its values generator (line 396 over
\* line 1159 over the tee): the first comes from the tee's buffer, the
\* later ones are pulled from the input.
ChainTakesValue ==
    /\ gPc = "iter"
    /\ gChainArg.kind = "generator"
    /\ gValuesPos < gN
    /\ gValuesPos' = gValuesPos + 1
    /\ gPulled' = IF gValuesPos + 1 > gPulled THEN gValuesPos + 1 ELSE gPulled
    /\ gSeen' = Append(gSeen, gValuesPos + 1)
    /\ UNCHANGED <<gN, gState, gStateRet, gTimedOut, gOffsets, gDeclared, gRet,
                   gTaken, gChainArg,
                   gVerified, gOut, gPc, gErr>>
    /\ UNCHANGED notState

\* Downstream asks for the next element (line 442): it is taken from the
\* returned iterable, verified, and handed on or refused.
ConsumeElement ==
    /\ gPc = "iter"
    /\ gVerified < Len(gRet.elems)
    /\ LET x == gRet.elems[gVerified + 1]
           err == verify_element(x, gDeclared)
       IN /\ gVerified' = gVerified + 1
          /\ gErr' = err
          /\ IF err = NoErr
             THEN gOut' = Append(gOut, x) /\ gPc' = gPc
             ELSE gOut' = gOut /\ gPc' = "failed"
    /\ UNCHANGED <<gN, gState, gStateRet, gTimedOut, gOffsets, gDeclared, gRet,
                   gPulled, gValuesPos,
                   gTaken, gChainArg, gSeen>>
    /\ UNCHANGED notState

\* The returned iterable is exhausted.
ElementsExhausted ==
    /\ gPc = "iter"
    /\ gVerified = Len(gRet.elems)
    /\ gPc' = "done"
    /\ UNCHANGED <<gN, gState, gStateRet, gTimedOut, gOffsets, gDeclared, gRet,
                   gPulled, gValuesPos,
                   gTaken, gChainArg, gSeen, gVerified, gOut, gErr>>
    /\ UNCHANGED notState

NextState == MapperInvoke \/ ChainTakesValue \/ ConsumeElement \/ ElementsExhausted

InitState ==
    /\ StateInit
    /\ ChainIdle /\ UdtfIdle /\ MainIdle /\ IterIdle /\ VecIdle
    /\ WinIdle /\ VerifyIdle /\ DecodeIdle /\ ResIdle
    /\ UdfsIdle /\ AggIdle /\ RowsIdle /\ ArrowIdle
    /\ MapperIdle /\ OffsIdle

SpecState == InitState /\ [][NextState]_vars

\* The chain was invoked for a timed-out state with one empty batch that
\* carries the value columns.
TimedOutInvocation ==
    /\ gChainArg.kind = "list"
    /\ Len(gChainArg.batches) = 1
    /\ gChainArg.batches[1].rows = 0
    /\ Len(gChainArg.batches[1].cols) = Len(gOffsets.values)
    /\ \A j \in 1..Len(gOffsets.values) :
         gChainArg.batches[1].cols[j] = Cols[gOffsets.values[j]]

\* C7 as written: for a timed-out state the chain is invoked with a single
\* empty batch carrying the value columns, and the adapter consumes no
\* element of the group's value sequence.
C7_NoValueConsumed ==
    (gTimedOut /\ gPc # "mapper") => (TimedOutInvocation /\ gTaken = 0)

\* C7: for a timed-out state the chain is invoked with a single empty batch
\* carrying the value columns; the adapter takes exactly one element, the
\* first, from the group's value sequence to read those columns, nothing
\* more is taken from the sequence or pulled from the input, and the chain
\* is given no batch of the group.
C7_OnlyFirstValueConsumed ==
    (gTimedOut /\ gPc # "mapper") =>
        /\ TimedOutInvocation
        /\ gTaken = 1
        /\ gValuesPos = 1
        /\ gPulled = 1
        /\ gSeen = <<>>

\* A timed-out group of two batches ran to the end of the chain's output.
C7_Witness ==
    /\ gTimedOut
    /\ gN = 2
    /\ gPc = "done"
    /\ Len(gOut) = 1
    /\ gTaken = 1

\* C8: every element the chain returns is verified only when downstream
\* consumes it; a batch is accepted if and only if its column count equals
\* the declared field count or it has zero columns and zero rows, and
\* otherwise the adapter fails with ResultLengthMismatch at that element,
\* the earlier elements having been handed on already.
C8_ElementVerifiedOnDemand ==
    /\ Len(gOut) = IF gPc = "failed" /\ gVerified > 0 THEN gVerified - 1 ELSE gVerified
    /\ \A i \in 1..Len(gOut) : gOut[i] = gRet.elems[i]
    /\ \A i \in 1..gVerified :
         LET x == gRet.elems[i] IN
         x.isdf =>
           IF x.cols = gDeclared \/ (x.cols = 0 /\ x.rows = 0)
           THEN i <= Len(gOut)
           ELSE /\ i = gVerified
                /\ gPc = "failed"
                /\ gErr = "RESULT_LENGTH_MISMATCH_FOR_PANDAS_UDF"
                /\ Len(gOut) = i - 1

\* C27: a chain that returns a single batch or something that cannot be
\* iterated fails with UDF_RETURN_TYPE at the invocation, before any output
\* element is produced or verified and without anything being returned; on
\* success the adapter returns the lazily verified sequence (its elements
\* are the chain's, each handed on only once verified) paired with the very
\* state handle it was given.
C27_ReturnKindCheckedAtInvocation ==
    /\ gPc = "mapper" => gStateRet = None
    /\ (gPc # "mapper" /\ gRet.kind \in {"DataFrame", "not_iterable"}) =>
          /\ gPc = "failed"
          /\ gErr = "UDF_RETURN_TYPE"
          /\ gVerified = 0
          /\ gOut = <<>>
          /\ gStateRet = None
    /\ (gPc # "mapper" /\ gRet.kind = "iterable") =>
          /\ gStateRet = gState
          /\ Len(gOut) <= gVerified
          /\ \A i \in 1..Len(gOut) :
               gOut[i] = gRet.elems[i] /\ verify_element(gOut[i], gDeclared) = NoErr

\* The chain returned a single batch and the invocation has failed.
C27_Witness ==
    /\ gRet.kind = "DataFrame"
    /\ gPc = "failed"
    /\ gErr = "UDF_RETURN_TYPE"
    /\ gState = "state_2"

\* C33: with a state that has not timed out, the peek at the first batch
\* of the group for the key takes nothing away from the values: the chain
\* is given a lazy sequence, what it has taken from it so far are the
\* batches 1, 2, ... of the group, each once and in input order, the
\* adapter itself has taken none, and beyond the peeked first batch the
\* input is pulled only as far as the chain has consumed.
C33_PeekKeepsFirstBatch ==
    (~gTimedOut /\ gPc \notin {"idle", "mapper"}) =>
        /\ gChainArg.kind = "generator"
        /\ gTaken = 0
        /\ Len(gSeen) <= gN
        /\ gSeen = [i \in 1..Len(gSeen) |-> i]
        /\ gValuesPos = Len(gSeen)
        /\ gPulled = IF Len(gSeen) = 0 THEN 1 ELSE Len(gSeen)

\* The chain has consumed both batches of a group of two.
C33_Witness ==
    /\ ~gTimedOut
    /\ gN = 2
    /\ gSeen = <<1, 2>>
    /\ gPulled = 2

(***************************************************************************)
(* Bounded window aggregation: wrap_bounded_window_agg_pandas_udf.  One    *)
(* application of the adapter is followed through its loop over the        *)
(* windows.                                                                *)
(***************************************************************************)
MaxWinLen == 3
MaxWin == 2

ArgCounts == {1, 2}

\* Argument c of the batch: n values that tell the column and the row.
Column(c, n) == [p \in 1..n |-> 10 * c + p]

\* The chain: an aggregate of its argument slices.
Agg(slices) == SumSeq([c \in 1..Len(slices) |-> SumSeq(slices[c])])

\* A variant of the slice that takes the row at the end index as well.
iloc_closed(s, b, e) ==
    SubSeq(s, b + 1, IF e + 1 > Len(s) THEN Len(s) ELSE e + 1)

\* s.iloc[b : e] for non-negative b and e: rows b, ..., e - 1 (0-based),
\* cut at the end of the series; empty when b >= e.
iloc(s, b, e) ==
    SubSeq(s, b + 1, IF e > Len(s) THEN Len(s) ELSE e)

WinInit ==
    /\ \E n \in 0..MaxWinLen, k \in ArgCounts : wArgs = [c \in 1..k |-> Column(c, n)]
    /\ \E n \in 0..MaxWin :
         /\ wBegin \in [1..n -> 0..MaxWinLen]
         /\ wEnd \in [1..n -> 0..MaxWinLen]
    /\ wI = 0
    /\ wCalls = <<>>
    /\ wResult = <<>>
    /\ wOut = <<>>
    /\ wPc = "loop"
    /\ wErr = NoErr

\* One turn of the loop of line 510: every argument is sliced and the chain
\* is called on the slices; its result is appended, or its exception
\* leaves the adapter.
WindowCall ==
    /\ wPc = "loop"
    /\ wI < Len(wBegin)
    /\ LET args_slices == [c \in 1..Len(wArgs) |->
                              iloc(wArgs[c], wBegin[wI + 1], wEnd[wI + 1])]
       IN /\ wCalls' = Append(wCalls, args_slices)
          /\ \E raises \in BOOLEAN :
               IF raises
               THEN /\ wErr' = "UserException"
                    /\ wPc' = "failed"
                    /\ UNCHANGED <<wI, wResult>>
               ELSE /\ wResult' = Append(wResult, Agg(args_slices))
                    /\ wI' = wI + 1
                    /\ UNCHANGED <<wPc, wErr>>
    /\ UNCHANGED <<wArgs, wBegin, wEnd, wOut>>
    /\ UNCHANGED notWin

\* Line 527: the loop is over and the results are returned as one series.
WindowReturn ==
    /\ wPc = "loop"
    /\ wI = Len(wBegin)
    /\ wOut' = wResult
    /\ wPc' = "done"
    /\ UNCHANGED <<wArgs, wBegin, wEnd, wI, wCalls, wResult, wErr>>
    /\ UNCHANGED notWin

NextWin == WindowCall \/ WindowReturn

InitWin ==
    /\ WinInit
    /\ ChainIdle /\ UdtfIdle /\ MainIdle /\ IterIdle /\ VecIdle
    /\ StateIdle /\ VerifyIdle /\ DecodeIdle /\ ResIdle
    /\ UdfsIdle /\ AggIdle /\ RowsIdle /\ ArrowIdle
    /\ MapperIdle /\ OffsIdle

SpecWin == InitWin /\ [][NextWin]_vars

\* q holds the rows of s at the 0-based positions p with b <= p < e.
IsHalfOpenSlice(q, s, b, e) ==
    /\ Len(q) = Cardinality({p \in 0..(Len(s) - 1) : b <= p /\ p < e})
    /\ \A j \in 1..Len(q) : q[j] = s[b + j]

\* C9: with begin and end arrays of length n the chain is called n times in
\* index order, call i on every argument sliced to [begin[i], end[i]), and
\* n rows are returned, row i being the result of call i, whatever the
\* length of the argument batch.
C9_OneRowPerWindow ==
    /\ Len(wCalls) <= Len(wBegin)
    /\ \A i \in 1..Len(wCalls) :
         /\ Len(wCalls[i]) = Len(wArgs)
         /\ \A c \in 1..Len(wArgs) :
              IsHalfOpenSlice(wCalls[i][c], wArgs[c], wBegin[i], wEnd[i])
    /\ \A i \in 1..Len(wResult) : wResult[i] = Agg(wCalls[i])
    /\ wPc = "done" =>
         /\ Len(wCalls) = Len(wBegin)
         /\ Len(wOut) = Len(wBegin)
         /\ wOut = wResult

\* begin = [0, 1] and end = [2, 3] over three rows gave two rows.
C9_Witness ==
    /\ wPc = "done"
    /\ wBegin = <<0, 1>>
    /\ wEnd = <<2, 3>>
    /\ wArgs = <<Column(1, 3)>>
    /\ wOut = <<Agg(<<SubSeq(Column(1, 3), 1, 2)>>), Agg(<<SubSeq(Column(1, 3), 2, 3)>>)>>

(***************************************************************************)
(* Verification of structured results: verify_pandas_result (223-280) as   *)
(* the adapters call it, wrap_grouped_map_pandas_udf (340-357),            *)
(* wrap_cogrouped_map_pandas_udf (316-337), wrap_pandas_batch_iter_udf     *)
(* (185-220) and wrap_arrow_udtf.verify_result (769-797).                  *)
(***************************************************************************)
MaxCols == 3

\* Column labels: strings, or something else (a position).
Str(name) == [str |-> TRUE, v |-> name]
Labels == {Str("a"), Str("b"), Str("c"), [str |-> FALSE, v |-> "0"]}

Paths == {"grouped_map", "cogrouped_map", "pandas_batch_iter", "arrow_udtf"}
DeclaredTypes == {[struct |-> TRUE, fields |-> <<"a">>],
                  [struct |-> TRUE, fields |-> <<"a", "b">>],
                  [struct |-> FALSE, fields |-> <<>>]}
Results ==
    [kind : {"DataFrame"}, columns : SeqsUpTo(Labels, MaxCols), rows : RowCounts]
    \cup {[kind |-> k, columns |-> <<>>, rows |-> 0] : k \in {"Series", "other"}}

Range(s) == {s[i] : i \in 1..Len(s)}
Verdict(e) == [err |-> e, missing |-> {}, extra |-> {}]

AssignsByName_always(path, conf) == TRUE

\* The assign_cols_by_name argument of each call of verify_pandas_result
\* (lines 213, 332, 352 and 795; assign_cols_by_name, 604-610).
AssignsByName(path, conf) ==
    CASE path \in {"grouped_map", "cogrouped_map"} -> conf
      [] path = "pandas_batch_iter" -> TRUE
      [] OTHER -> FALSE

TruncatesReturnSchema_never(path) == FALSE

\* The truncate_return_schema argument of each call.
TruncatesReturnSchema(path) == path = "pandas_batch_iter"

ChecksSchema_unless_no_rows(result) ==
    ~(result.rows = 0 \/ Len(result.columns) = 0)

\* Line 237: whether the columns of a DataFrame are checked at all.
ChecksSchema(result) ==
    \/ ~DataFrameEmpty([rows |-> result.rows, cols |-> Len(result.columns)])
    \/ Len(result.columns) # 0

\* verify_pandas_result (223-280).
verify_pandas_result(result, return_type, assign_cols_by_name, truncate_return_schema) ==
    IF return_type.struct
    THEN IF result.kind # "DataFrame" THEN Verdict("UDF_RETURN_TYPE")
         ELSE IF ~ChecksSchema(result) THEN Verdict(NoErr)
         ELSE
           LET field_names == {Str(f) : f \in Range(return_type.fields)}
               n == Cardinality(field_names)
               result_columns ==
                   IF truncate_return_schema
                   THEN SubSeq(result.columns, 1,
                               IF n < Len(result.columns) THEN n ELSE Len(result.columns))
                   ELSE result.columns
               column_names == Range(result_columns)
           IN IF /\ assign_cols_by_name
                 /\ \E name \in Range(result.columns) : name.str
                 /\ column_names # field_names
              THEN [err |-> "RESULT_COLUMNS_MISMATCH_FOR_PANDAS_UDF",
                    missing |-> field_names \ column_names,
                    extra |-> column_names \ field_names]
              ELSE IF Len(result_columns) # Len(return_type.fields)
              THEN Verdict("RESULT_LENGTH_MISMATCH_FOR_PANDAS_UDF")
              ELSE Verdict(NoErr)
    ELSE IF result.kind # "Series" THEN Verdict("UDF_RETURN_TYPE")
         ELSE Verdict(NoErr)

\* What each adapter does with a result of its chain: wrapped (331, 351),
\* verify_element (200-216) and verify_result (769-797).
VerifyOnPath(path, conf, result, return_type) ==
    LET checked == verify_pandas_result(result, return_type,
                                        AssignsByName(path, conf),
                                        TruncatesReturnSchema(path))
    IN CASE path = "pandas_batch_iter" ->
              IF result.kind # (IF return_type.struct THEN "DataFrame" ELSE "Series")
              THEN Verdict("UDF_RETURN_TYPE")
              ELSE checked
         [] path = "arrow_udtf" ->
              IF result.kind # "DataFrame"
              THEN Verdict("INVALID_ARROW_UDTF_RETURN_TYPE")
              ELSE IF /\ (result.rows > 0 \/ Len(result.columns) > 0)
                      /\ Len(result.columns) # Len(return_type.fields)
              THEN Verdict("UDTF_RETURN_SCHEMA_MISMATCH")
              ELSE checked
         [] OTHER -> checked

\* Only the iterator-of-batches adapter is built for return types that are
\* not structured; verify_result of the table function gets a DataFrame.
VerifyInit ==
    /\ pPath \in Paths
    /\ pConf \in BOOLEAN
    /\ pReturnType \in DeclaredTypes
    /\ pResult \in Results
    /\ pPath # "pandas_batch_iter" => pReturnType.struct
    /\ pPath = "arrow_udtf" => pResult.kind = "DataFrame"
    /\ pVerdict = NoVerdict
    /\ pPc = "apply"

\* The adapter checks the result of its chain.
ApplyVerify ==
    /\ pPc = "apply"
    /\ pVerdict' = VerifyOnPath(pPath, pConf, pResult, pReturnType)
    /\ pPc' = "checked"
    /\ UNCHANGED <<pPath, pConf, pReturnType, pResult>>
    /\ UNCHANGED notVerify

NextVerify == ApplyVerify

InitVerify ==
    /\ VerifyInit
    /\ ChainIdle /\ UdtfIdle /\ MainIdle /\ IterIdle /\ VecIdle
    /\ StateIdle /\ WinIdle /\ DecodeIdle /\ ResIdle
    /\ UdfsIdle /\ AggIdle /\ RowsIdle /\ ArrowIdle
    /\ MapperIdle /\ OffsIdle

SpecVerify == InitVerify /\ [][NextVerify]_vars

\* The check has been applied to a DataFrame for a structured return type.
StructuredChecked ==
    pPc = "checked" /\ pReturnType.struct /\ pResult.kind = "DataFrame"

FieldNames == {Str(f) : f \in Range(pReturnType.fields)}
FieldCount == Len(pReturnType.fields)
AnyStringLabel == \E c \in Range(pResult.columns) : c.str
NonEmptyResult == pResult.rows > 0 /\ Len(pResult.columns) > 0
Considered ==
    IF pPath = "pandas_batch_iter" /\ Len(pResult.columns) > FieldCount
    THEN SubSeq(pResult.columns, 1, FieldCount)
    ELSE pResult.columns
ColumnsMismatch(names) ==
    [err |-> "RESULT_COLUMNS_MISMATCH_FOR_PANDAS_UDF",
     missing |-> FieldNames \ names, extra |-> names \ FieldNames]

\* C12 as written: in every mode a non-empty structured result with a
\* string label among its column names must carry exactly the declared
\* field-name set, else ResultColumnsMismatch with the missing and extra
\* names; otherwise its column count must equal the field count, else
\* ResultLengthMismatch.
C12_NamesCheckedInEveryMode ==
    (StructuredChecked /\ NonEmptyResult) =>
        IF AnyStringLabel /\ Range(pResult.columns) # FieldNames
        THEN pVerdict = ColumnsMismatch(Range(pResult.columns))
        ELSE pVerdict = IF Len(pResult.columns) = FieldCount
                        THEN Verdict(NoErr)
                        ELSE Verdict("RESULT_LENGTH_MISMATCH_FOR_PANDAS_UDF")

\* C12: names are compared only where assignment by name is on (GroupedMap
\* and CogroupedMap unless the configuration turns it off, the
\* iterator-of-batches adapter always): there, with a string label among
\* the column names, the names of the considered columns (the first
\* field-count ones under truncation, else all) must be the declared
\* field-name set, else ResultColumnsMismatch with the missing and extra
\* names; in every other case (names that match, no string label, or
\* assignment by name off) the number of considered columns must equal the
\* field count, else ResultLengthMismatch.  The vectorized table function never compares
\* names and refuses another column count with its own schema mismatch.
C12_NamesCheckedWhenAssignedByName ==
    (StructuredChecked /\ NonEmptyResult) =>
        IF pPath = "arrow_udtf"
        THEN pVerdict = IF Len(pResult.columns) = FieldCount
                        THEN Verdict(NoErr)
                        ELSE Verdict("UDTF_RETURN_SCHEMA_MISMATCH")
        ELSE IF /\ (pPath = "pandas_batch_iter" \/ pConf)
                /\ AnyStringLabel
                /\ Range(Considered) # FieldNames
        THEN pVerdict = ColumnsMismatch(Range(Considered))
        ELSE pVerdict = IF Len(Considered) = FieldCount
                        THEN Verdict(NoErr)
                        ELSE Verdict("RESULT_LENGTH_MISMATCH_FOR_PANDAS_UDF")

\* GroupedMap with assignment by name turned off accepted two columns whose
\* names are not the declared ones.
C12_Witness ==
    /\ StructuredChecked
    /\ pPath = "grouped_map"
    /\ ~pConf
    /\ pResult.rows = 1
    /\ pResult.columns = <<Str("c"), Str("b")>>
    /\ pReturnType.fields = <<"a", "b">>
    /\ pVerdict = Verdict(NoErr)

\* The adapters that hand their result to verify_pandas_result unchecked.
DirectPath == pPath \in {"grouped_map", "cogrouped_map", "pandas_batch_iter"}

\* C13 as written: a structured result with zero rows, even with columns,
\* or with zero columns is accepted without a check of its columns.
C13_EmptySkipsChecks ==
    (StructuredChecked /\ DirectPath
       /\ (pResult.rows = 0 \/ Len(pResult.columns) = 0)) =>
        pVerdict = Verdict(NoErr)

\* C13: a structured result with zero columns is accepted without a check
\* of its columns, whatever its row count; a result with zero rows that
\* has columns is checked exactly as the same columns with rows are; the
\* vectorized table function accepts a result without columns only if it
\* has no rows either.
C13_OnlyColumnlessSkipsChecks ==
    StructuredChecked =>
        /\ (DirectPath /\ Len(pResult.columns) = 0) => pVerdict = Verdict(NoErr)
        /\ (DirectPath /\ pResult.rows = 0) =>
             pVerdict = VerifyOnPath(pPath, pConf, [pResult EXCEPT !.rows = 1],
                                     pReturnType)
        /\ (pPath = "arrow_udtf" /\ Len(pResult.columns) = 0) =>
             (pVerdict = Verdict(NoErr) <=> pResult.rows = 0)

\* A result with no rows and one column of another name was refused.
C13_Witness ==
    /\ StructuredChecked
    /\ pPath = "cogrouped_map"
    /\ pConf
    /\ pResult.rows = 0
    /\ pResult.columns = <<Str("c")>>
    /\ pReturnType.fields = <<"a">>
    /\ pVerdict.err = "RESULT_COLUMNS_MISMATCH_FOR_PANDAS_UDF"

\* The column names are the declared field names in some order.
IsPermutation ==
    /\ Len(pResult.columns) = FieldCount
    /\ Range(pResult.columns) = FieldNames
AllStringLabels == \A c \in Range(pResult.columns) : c.str
FirstFieldCount ==
    IF Len(pResult.columns) > FieldCount
    THEN SubSeq(pResult.columns, 1, FieldCount)
    ELSE pResult.columns

\* C14 as written: GroupedMap and CogroupedMap accept column names that are
\* a permutation of the declared field names; the iterator-of-batches and
\* the table-function path truncate, looking at the first field-count
\* columns only and accepting exactly when those carry the declared names.
C14_TruncatingPathsCompareNames ==
    (StructuredChecked /\ NonEmptyResult /\ AllStringLabels) =>
        /\ (pPath \in {"grouped_map", "cogrouped_map"} /\ IsPermutation) =>
             pVerdict = Verdict(NoErr)
        /\ pPath \in {"pandas_batch_iter", "arrow_udtf"} =>
             (pVerdict = Verdict(NoErr) <=> Range(FirstFieldCount) = FieldNames)

\* C14: GroupedMap and CogroupedMap accept column names that are a
\* permutation of the declared field names; the iterator-of-batches path
\* truncates, looking at the first field-count columns only and accepting
\* exactly when those carry the declared names; the vectorized
\* table-function path neither truncates nor compares names and accepts
\* exactly when the column count is the field count.
C14_OnlyBatchIterTruncates ==
    (StructuredChecked /\ NonEmptyResult /\ AllStringLabels) =>
        /\ (pPath \in {"grouped_map", "cogrouped_map"} /\ IsPermutation) =>
             pVerdict = Verdict(NoErr)
        /\ pPath = "pandas_batch_iter" =>
             (pVerdict = Verdict(NoErr) <=> Range(FirstFieldCount) = FieldNames)
        /\ pPath = "arrow_udtf" =>
             (pVerdict = Verdict(NoErr) <=> Len(pResult.columns) = FieldCount)

\* The iterator-of-batches path accepted the declared names in another
\* order followed by a further column.
C14_Witness ==
    /\ StructuredChecked
    /\ pPath = "pandas_batch_iter"
    /\ pResult.rows = 1
    /\ pResult.columns = <<Str("b"), Str("a"), Str("c")>>
    /\ pReturnType.fields = <<"a", "b">>
    /\ pVerdict = Verdict(NoErr)

(***************************************************************************)
(* Decoding a command: read_single_udf (532-563) up to the chain, and      *)
(* read_udtf (617-759) up to the validated handler instance, followed by   *)
(* the evaluation of the first input row.  dReads lists the fields read.   *)
(***************************************************************************)
MaxArgs == 2
MaxPci == 1

\* The evaluation modes whose arguments carry a positional-or-named flag
\* (lines 535-543), the UDF modes of line 554, and those of read_udtf.
NamedArgEvalTypes ==
    {"SQL_BATCHED_UDF", "SQL_ARROW_BATCHED_UDF", "SQL_SCALAR_PANDAS_UDF",
     "SQL_GROUPED_AGG_PANDAS_UDF", "SQL_WINDOW_AGG_PANDAS_UDF",
     "SQL_SCALAR_PANDAS_ITER_UDF"}
PositionalEvalTypes ==
    {"SQL_MAP_PANDAS_ITER_UDF", "SQL_MAP_ARROW_ITER_UDF",
     "SQL_GROUPED_MAP_PANDAS_UDF", "SQL_GROUPED_MAP_PANDAS_UDF_WITH_STATE",
     "SQL_COGROUPED_MAP_PANDAS_UDF"}
TableEvalTypes == {"SQL_TABLE_UDF", "SQL_ARROW_TABLE_UDF"}

ArgOffsets == {0, 1}
ArgNames == {"x", "y"}
WireArgs ==
    [offset : ArgOffsets, named : {FALSE}, name : {""}]
    \cup [offset : ArgOffsets, named : {TRUE}, name : ArgNames]
Handlers == {"class", "class_without_eval", "instance"}

HasNamedArguments_all(eval_type) == TRUE

\* Whether the decoder reads a flag (and a name) after each offset: the
\* test of lines 535-543 in read_single_udf; read_udtf (642-648) always.
HasNamedArguments(eval_type) ==
    eval_type \in NamedArgEvalTypes \cup TableEvalTypes

HandlerCheck_skipped(handler) == NoErr

\* Lines 652-656.
HandlerCheck(handler) ==
    IF handler = "instance" THEN "InvalidHandlerType" ELSE NoErr

\* Lines 659-662.
ReturnTypeCheck(struct) ==
    IF ~struct THEN "InvalidReturnType" ELSE NoErr

\* hasattr(udtf, "eval") of line 754: UDTFWithPartitions defines eval.
HasEval(udtf, handler) ==
    udtf = "UDTFWithPartitions" \/ handler = "class"

ArgsRead == Cardinality({i \in 1..Len(dReads) : dReads[i] = "offset"})

DecodeInit ==
    /\ dEvalType \in NamedArgEvalTypes \cup PositionalEvalTypes \cup TableEvalTypes
    /\ dWire \in SeqsUpTo(WireArgs, MaxArgs)
    /\ dEvalType \in PositionalEvalTypes =>
         \A i \in 1..Len(dWire) : ~dWire[i].named
    /\ IF dEvalType \in TableEvalTypes
       THEN /\ dPciN \in 0..MaxPci
            /\ dHandler \in Handlers
            /\ dStruct \in BOOLEAN
            /\ dChainLen = 0
       ELSE /\ dPciN = 0
            /\ dHandler = "none"
            /\ dStruct = FALSE
            /\ dChainLen \in 1..MaxChain
    /\ dReads = <<>>
    /\ dArgs = <<>>
    /\ dKwargs = {}
    /\ dUdtf = "none"
    /\ dInstances = 0
    /\ dRows = 0
    /\ dPc = "num_arg"
    /\ dErr = NoErr

\* Lines 533 and 639, after the configuration of lines 618-633 in the
\* vectorized table function.
DecodeNumArg ==
    /\ dPc = "num_arg"
    /\ dReads' = (IF dEvalType = "SQL_ARROW_TABLE_UDF" THEN <<"runner_conf">> ELSE <<>>)
                 \o <<"num_arg">>
    /\ dPc' = "args"
    /\ UNCHANGED <<dEvalType, dWire, dPciN, dHandler, dStruct, dChainLen, dArgs,
                   dKwargs, dUdtf, dInstances, dRows, dErr>>
    /\ UNCHANGED notDecode

\* One argument: a turn of the loop of lines 546-552 or 642-648, or one
\* element of the list of line 554.
DecodeArg ==
    /\ dPc = "args"
    /\ ArgsRead < Len(dWire)
    /\ LET a == dWire[ArgsRead + 1] IN
       IF HasNamedArguments(dEvalType)
       THEN /\ dReads' = dReads \o (IF a.named THEN <<"offset", "flag", "name">>
                                    ELSE <<"offset", "flag">>)
            /\ dKwargs' = IF a.named
                          THEN {k \in dKwargs : k.name # a.name}
                               \cup {[name |-> a.name, offset |-> a.offset]}
                          ELSE dKwargs
            /\ dArgs' = IF a.named THEN dArgs ELSE Append(dArgs, a.offset)
       ELSE /\ dReads' = Append(dReads, "offset")
            /\ dArgs' = Append(dArgs, a.offset)
            /\ dKwargs' = dKwargs
    /\ UNCHANGED <<dEvalType, dWire, dPciN, dHandler, dStruct, dChainLen, dUdtf,
                   dInstances, dRows, dPc, dErr>>
    /\ UNCHANGED notDecode

\* Lines 557-563: the chain length, then the commands of the chain.
DecodeChain ==
    /\ dPc = "args"
    /\ ArgsRead = Len(dWire)
    /\ dEvalType \notin TableEvalTypes
    /\ dReads' = dReads \o <<"chain_len">> \o [i \in 1..dChainLen |-> "command"]
    /\ dPc' = "built"
    /\ UNCHANGED <<dEvalType, dWire, dPciN, dHandler, dStruct, dChainLen, dArgs,
                   dKwargs, dUdtf, dInstances, dRows, dErr>>
    /\ UNCHANGED notDecode

\* Lines 649-650.
DecodePartitionIndexes ==
    /\ dPc = "args"
    /\ ArgsRead = Len(dWire)
    /\ dEvalType \in TableEvalTypes
    /\ dReads' = dReads \o <<"num_partition_child_indexes">>
                 \o [i \in 1..dPciN |-> "partition_child_index"]
    /\ dPc' = "handler"
    /\ UNCHANGED <<dEvalType, dWire, dPciN, dHandler, dStruct, dChainLen, dArgs,
                   dKwargs, dUdtf, dInstances, dRows, dErr>>
    /\ UNCHANGED notDecode

\* Lines 651-656.
DecodeHandler ==
    /\ dPc = "handler"
    /\ dReads' = Append(dReads, "handler")
    /\ dErr' = HandlerCheck(dHandler)
    /\ dPc' = IF HandlerCheck(dHandler) = NoErr THEN "return_type" ELSE "failed"
    /\ UNCHANGED <<dEvalType, dWire, dPciN, dHandler, dStruct, dChainLen, dArgs,
                   dKwargs, dUdtf, dInstances, dRows>>
    /\ UNCHANGED notDecode

\* Lines 658-662.
DecodeReturnType ==
    /\ dPc = "return_type"
    /\ dReads' = Append(dReads, "return_type")
    /\ dErr' = ReturnTypeCheck(dStruct)
    /\ dPc' = IF ReturnTypeCheck(dStruct) = NoErr THEN "instantiate" ELSE "failed"
    /\ UNCHANGED <<dEvalType, dWire, dPciN, dHandler, dStruct, dChainLen, dArgs,
                   dKwargs, dUdtf, dInstances, dRows>>
    /\ UNCHANGED notDecode

\* Lines 741-751: the handler class is instantiated, by the wrapper's
\* constructor when partition columns are declared; a failing constructor
\* is reported as UDTF_EXEC_ERROR.
DecodeInstantiate ==
    /\ dPc = "instantiate"
    /\ \E ok \in BOOLEAN :
         IF ok
         THEN /\ dUdtf' = IF dPciN > 0 THEN "UDTFWithPartitions" ELSE "handler"
              /\ dInstances' = 1
              /\ dPc' = "validate"
              /\ dErr' = dErr
         ELSE /\ dErr' = "UDTF_EXEC_ERROR"
              /\ dPc' = "failed"
              /\ UNCHANGED <<dUdtf, dInstances>>
    /\ UNCHANGED <<dEvalType, dWire, dPciN, dHandler, dStruct, dChainLen, dReads,
                   dArgs, dKwargs, dRows>>
    /\ UNCHANGED notDecode

\* Lines 753-759.
DecodeValidate ==
    /\ dPc = "validate"
    /\ IF HasEval(dUdtf, dHandler)
       THEN dPc' = "built" /\ dErr' = dErr
       ELSE dPc' = "failed" /\ dErr' = "MissingEvalMethod"
    /\ UNCHANGED <<dEvalType, dWire, dPciN, dHandler, dStruct, dChainLen, dReads,
                   dArgs, dKwargs, dUdtf, dInstances, dRows>>
    /\ UNCHANGED notDecode

\* The first input row is read and evaluated; behind the wrapper line 712
\* reads the eval attribute of the handler instance.
EvaluateFirstRow ==
    /\ dPc = "built"
    /\ dReads' = Append(dReads, "row")
    /\ dRows' = 1
    /\ IF dEvalType \in TableEvalTypes /\ dHandler # "class"
       THEN dPc' = "failed" /\ dErr' = "AttributeError"
       ELSE dPc' = "row" /\ dErr' = dErr
    /\ UNCHANGED <<dEvalType, dWire, dPciN, dHandler, dStruct, dChainLen, dArgs,
                   dKwargs, dUdtf, dInstances>>
    /\ UNCHANGED notDecode

NextDecode ==
    \/ DecodeNumArg \/ DecodeArg \/ DecodeChain \/ DecodePartitionIndexes
    \/ DecodeHandler \/ DecodeReturnType \/ DecodeInstantiate \/ DecodeValidate
    \/ EvaluateFirstRow

InitDecode ==
    /\ DecodeInit
    /\ ChainIdle /\ UdtfIdle /\ MainIdle /\ IterIdle /\ VecIdle
    /\ StateIdle /\ WinIdle /\ VerifyIdle /\ ResIdle
    /\ UdfsIdle /\ AggIdle /\ RowsIdle /\ ArrowIdle
    /\ MapperIdle /\ OffsIdle

SpecDecode == InitDecode /\ [][NextDecode]_vars

\* The fields read for the arguments of a wire, with or without flags.
RECURSIVE WireReads(_, _)
WireReads(wire, flagged) ==
    IF wire = <<>> THEN <<>>
    ELSE LET a == Head(wire) IN
         (IF ~flagged THEN <<"offset">>
          ELSE IF a.named THEN <<"offset", "flag", "name">>
          ELSE <<"offset", "flag">>)
         \o WireReads(Tail(wire), flagged)

\* The fields read before the first field named tok.
ReadsBefore(tok) ==
    SubSeq(dReads, 1, (CHOOSE i \in 1..Len(dReads) : dReads[i] = tok) - 1)
HasRead(tok) == \E i \in 1..Len(dReads) : dReads[i] = tok

\* The positional offsets in wire order, and the named offsets by name
\* (the last one of a name when a name repeats).
PositionalOffsets(wire) ==
    LET pos == SelectSeq(wire, LAMBDA a : ~a.named)
    IN [i \in 1..Len(pos) |-> pos[i].offset]
NamedOffsets(wire) ==
    {[name |-> wire[i].name, offset |-> wire[i].offset] :
        i \in {j \in 1..Len(wire) :
                 /\ wire[j].named
                 /\ \A k \in (j + 1)..Len(wire) :
                      ~(wire[k].named /\ wire[k].name = wire[j].name)}}

\* C17 as written: for every UDF in every UDF evaluation mode the argument
\* count is read, then for each argument an offset and a
\* positional-or-named flag (and the name when named), before the chain
\* length is read; positional offsets keep their wire order and named
\* offsets are keyed by name.
C17_FlagReadInEveryMode ==
    (dEvalType \notin TableEvalTypes /\ HasRead("chain_len")) =>
        /\ ReadsBefore("chain_len") = <<"num_arg">> \o WireReads(dWire, TRUE)
        /\ dArgs = PositionalOffsets(dWire)
        /\ dKwargs = NamedOffsets(dWire)

\* C17: the argument count is read first and the arguments in order before
\* the chain length (for a table function, before the number of partition
\* columns); each argument is an offset followed by a positional-or-named
\* flag, and by the name when named, in the modes of lines 535-543 and for
\* table functions, and an offset alone, always positional, in the other
\* UDF modes (map iterators, grouped map, with state and cogrouped map);
\* positional offsets keep their wire order, named ones are keyed by name.
C17_FlagReadInNamedArgModes ==
    /\ (dEvalType \notin TableEvalTypes /\ HasRead("chain_len")) =>
         /\ ReadsBefore("chain_len") =
              <<"num_arg">> \o WireReads(dWire, dEvalType \in NamedArgEvalTypes)
         /\ dArgs = PositionalOffsets(dWire)
         /\ dKwargs = NamedOffsets(dWire)
         /\ dEvalType \in PositionalEvalTypes => dKwargs = {}
    /\ (dEvalType \in TableEvalTypes /\ HasRead("num_partition_child_indexes")) =>
         /\ ReadsBefore("num_partition_child_indexes") =
              (IF dEvalType = "SQL_ARROW_TABLE_UDF" THEN <<"runner_conf">> ELSE <<>>)
              \o <<"num_arg">> \o WireReads(dWire, TRUE)
         /\ dArgs = PositionalOffsets(dWire)
         /\ dKwargs = NamedOffsets(dWire)

\* A grouped map UDF with two arguments was decoded without any flag read.
C17_Witness ==
    /\ dEvalType = "SQL_GROUPED_MAP_PANDAS_UDF"
    /\ dPc = "built"
    /\ dChainLen = 1
    /\ dReads = <<"num_arg", "offset", "offset", "chain_len", "command">>
    /\ dArgs = <<1, 0>>

\* C15: a handler class without eval makes the task fail with
\* MissingEvalMethod when the handler is validated, before any input row is
\* evaluated, with and without partition columns.
C15_MissingEvalAtValidation ==
    (dEvalType \in TableEvalTypes /\ dHandler = "class_without_eval") =>
        /\ dRows = 0
        /\ dPc \notin {"built", "row"}
        /\ (dPc = "failed" /\ dInstances > 0) => dErr = "MissingEvalMethod"

\* C18: a handler that is not a class fails with InvalidHandlerType and a
\* return schema that is not structured with InvalidReturnType, both while
\* decoding, before any instance is constructed and any row is read; the
\* handler is checked before the return schema is read.
C18_HandlerAndSchemaChecked ==
    dEvalType \in TableEvalTypes =>
        /\ (dHandler = "instance" /\ HasRead("handler")) =>
             /\ dPc = "failed"
             /\ dErr = "InvalidHandlerType"
             /\ ~HasRead("return_type")
        /\ (dHandler # "instance" /\ ~dStruct /\ HasRead("return_type")) =>
             /\ dPc = "failed"
             /\ dErr = "InvalidReturnType"
        /\ dErr \in {"InvalidHandlerType", "InvalidReturnType"} =>
             /\ dInstances = 0
             /\ dUdtf = "none"
             /\ dRows = 0
             /\ ~HasRead("row")
        /\ HasRead("return_type") =>
             /\ HasRead("handler")
             /\ Len(ReadsBefore("handler")) < Len(ReadsBefore("return_type"))
        /\ dInstances > 0 => (dHandler # "instance" /\ dStruct)

\* A handler class came with a return type that is not a struct.
C18_Witness ==
    /\ dEvalType = "SQL_TABLE_UDF"
    /\ dHandler = "class"
    /\ Len(dWire) = 1
    /\ dPc = "failed"
    /\ dErr = "InvalidReturnType"
    /\ dInstances = 0

(***************************************************************************)
(* The resources of the task context: the loop of lines 1241-1249 in main. *)
(***************************************************************************)
MaxResources == 2
MaxAddresses == 2

ResourceKeys == {"gpu", "fpga"}
Addresses == {"0", "1"}

\* A resource entry on the wire: key, name and the list of addresses; the
\* name sent is that of the key.
ResourceEntries ==
    {[key |-> k, name |-> k, addresses |-> a] :
        k \in ResourceKeys, a \in SeqsUpTo(Addresses, MaxAddresses)}

\* taskContext._resources[key] = ResourceInformation(name, addresses)
SetResource(resources, entry) ==
    {e \in resources : e.key # entry.key} \cup {entry}

ResInit ==
    /\ rWire \in SeqsUpTo(ResourceEntries, MaxResources)
    /\ rPos = 0
    /\ rResources = {}
    /\ rPc = "read"

\* One turn of the loop of line 1242: key, name and addresses are read;
\* line 1246 binds _resources to a new empty mapping before line 1249
\* stores the entry.
ReadResource ==
    /\ rPc = "read"
    /\ rPos < Len(rWire)
    /\ rResources' = SetResource({}, rWire[rPos + 1])
    /\ rPos' = rPos + 1
    /\ UNCHANGED <<rWire, rPc>>
    /\ UNCHANGED notRes

\* The loop is over.
ResourcesRead ==
    /\ rPc = "read"
    /\ rPos = Len(rWire)
    /\ rPc' = "done"
    /\ UNCHANGED <<rWire, rPos, rResources>>
    /\ UNCHANGED notRes

NextRes == ReadResource \/ ResourcesRead

InitRes ==
    /\ ResInit
    /\ ChainIdle /\ UdtfIdle /\ MainIdle /\ IterIdle /\ VecIdle
    /\ StateIdle /\ WinIdle /\ VerifyIdle /\ DecodeIdle
    /\ UdfsIdle /\ AggIdle /\ RowsIdle /\ ArrowIdle
    /\ MapperIdle /\ OffsIdle

SpecRes == InitRes /\ [][NextRes]_vars

\* C20: once the preamble is read the resource mapping holds one entry for
\* every resource entry sent: n entries with distinct keys give a mapping
\* of n entries, each with its own name and addresses in wire order.
C20_EveryResourceKept ==
    (/\ rPc = "done"
     /\ \A i, j \in 1..Len(rWire) : rWire[i].key = rWire[j].key => i = j) =>
        /\ Cardinality(rResources) = Len(rWire)
        /\ \A i \in 1..Len(rWire) : rWire[i] \in rResources

(***************************************************************************)
(* read_udfs (1010-1199): the UDF count of the task, the UDF definitions,  *)
(* and the generic output of lines 1195-1196 as process (1275-1282)        *)
(* consumes it: dump_stream asks for a result, map pulls a batch and       *)
(* applies the mapper.                                                     *)
(***************************************************************************)
MaxUdfs == 2
MaxStream == 2

\* The evaluation modes read_udfs decodes.
UdfEvalTypes == NamedArgEvalTypes \cup PositionalEvalTypes

\* Line 1016: the modes whose output is the generator of lines 1028-1075.
IteratorEvalTypes ==
    {"SQL_SCALAR_PANDAS_ITER_UDF", "SQL_MAP_PANDAS_ITER_UDF",
     "SQL_MAP_ARROW_ITER_UDF"}

\* A variant in which only the iterator modes insist on one UDF.
ExpectsOneUdf_iterators_only(eval_type) == eval_type \in IteratorEvalTypes

\* The modes that assert num_udfs == 1: lines 1017-1022, 1112, 1129, 1166.
ExpectsOneUdf(eval_type) ==
    \/ eval_type \in IteratorEvalTypes
    \/ eval_type = "SQL_GROUPED_MAP_PANDAS_UDF"
    \/ eval_type = "SQL_GROUPED_MAP_PANDAS_UDF_WITH_STATE"
    \/ eval_type = "SQL_COGROUPED_MAP_PANDAS_UDF"

UdfsInit ==
    /\ qEvalType \in UdfEvalTypes
    /\ qNumUdfs \in 0..MaxUdfs
    /\ qInput \in 0..MaxStream
    /\ qUdfs = 0
    /\ qPulled = 0
    /\ qApplied = 0
    /\ qOut = 0
    /\ qPc = "num_udfs"
    /\ qErr = NoErr

\* Line 1010 and the assertion of the mode, which precedes every call of
\* read_single_udf.
ReadNumUdfs ==
    /\ qPc = "num_udfs"
    /\ IF ExpectsOneUdf(qEvalType) /\ qNumUdfs # 1
       THEN qErr' = "AssertionError" /\ qPc' = "failed"
       ELSE qErr' = qErr /\ qPc' = "udfs"
    /\ UNCHANGED <<qEvalType, qNumUdfs, qInput, qUdfs, qPulled, qApplied, qOut>>
    /\ UNCHANGED notUdfs

\* One call of read_single_udf: lines 1024, 1116, 1133, 1167 and the loop
\* of lines 1180-1181.
ReadUdf ==
    /\ qPc = "udfs"
    /\ qUdfs < qNumUdfs
    /\ qUdfs' = qUdfs + 1
    /\ UNCHANGED <<qEvalType, qNumUdfs, qInput, qPulled, qApplied, qOut, qPc,
                   qErr>>
    /\ UNCHANGED notUdfs

\* read_udfs returns (1078, 1199); process builds the output iterator.  The
\* generator of the iterator modes is followed elsewhere.
UdfsRead ==
    /\ qPc = "udfs"
    /\ qUdfs = qNumUdfs
    /\ qPc' = IF qEvalType \in IteratorEvalTypes THEN "iterator" ELSE "request"
    /\ UNCHANGED <<qEvalType, qNumUdfs, qInput, qUdfs, qPulled, qApplied, qOut,
                   qErr>>
    /\ UNCHANGED notUdfs

\* A variant of map that takes the whole input when the first result is
\* asked for.
PullBatch_whole_input ==
    /\ qPc = "request"
    /\ qPulled < qInput
    /\ qPulled' = qInput
    /\ qPc' = "apply"
    /\ UNCHANGED <<qEvalType, qNumUdfs, qInput, qUdfs, qApplied, qOut, qErr>>
    /\ UNCHANGED notUdfs

\* dump_stream (1278) asks the output iterator for its next result: map
\* (1196) takes the next batch from the input iterator.
PullBatch ==
    /\ qPc = "request"
    /\ qPulled < qInput
    /\ qPulled' = qPulled + 1
    /\ qPc' = "apply"
    /\ UNCHANGED <<qEvalType, qNumUdfs, qInput, qUdfs, qApplied, qOut, qErr>>
    /\ UNCHANGED notUdfs

\* map applies the mapper (1121, 1136, 1171, 1183) to the batch it took;
\* an exception of the mapper leaves the output iterator.
ApplyMapper ==
    /\ qPc = "apply"
    /\ qApplied' = qApplied + 1
    /\ \E ok \in BOOLEAN :
         IF ok
         THEN qPc' = "result" /\ qErr' = qErr
         ELSE qPc' = "failed" /\ qErr' = "UserException"
    /\ UNCHANGED <<qEvalType, qNumUdfs, qInput, qUdfs, qPulled, qOut>>
    /\ UNCHANGED notUdfs

\* The result is returned to dump_stream.
HandOn ==
    /\ qPc = "result"
    /\ qOut' = qOut + 1
    /\ qPc' = "request"
    /\ UNCHANGED <<qEvalType, qNumUdfs, qInput, qUdfs, qPulled, qApplied, qErr>>
    /\ UNCHANGED notUdfs

\* The input iterator is exhausted: so is the output.
InputEnds ==
    /\ qPc = "request"
    /\ qPulled = qInput
    /\ qPc' = "done"
    /\ UNCHANGED <<qEvalType, qNumUdfs, qInput, qUdfs, qPulled, qApplied, qOut,
                   qErr>>
    /\ UNCHANGED notUdfs

NextUdfs ==
    \/ ReadNumUdfs \/ ReadUdf \/ UdfsRead
    \/ PullBatch \/ ApplyMapper \/ HandOn \/ InputEnds

InitUdfs ==
    /\ UdfsInit
    /\ ChainIdle /\ UdtfIdle /\ MainIdle /\ IterIdle /\ VecIdle
    /\ StateIdle /\ WinIdle /\ VerifyIdle /\ DecodeIdle /\ ResIdle
    /\ AggIdle /\ RowsIdle /\ ArrowIdle
    /\ MapperIdle /\ OffsIdle

SpecUdfs == InitUdfs /\ [][NextUdfs]_vars

\* The modes the claim names: GroupedMap, CogroupedMap, GroupedMapWithState,
\* ScalarIter and the two map-iterator modes.
SingleUdfModes ==
    {"SQL_GROUPED_MAP_PANDAS_UDF", "SQL_COGROUPED_MAP_PANDAS_UDF",
     "SQL_GROUPED_MAP_PANDAS_UDF_WITH_STATE", "SQL_SCALAR_PANDAS_ITER_UDF",
     "SQL_MAP_PANDAS_ITER_UDF", "SQL_MAP_ARROW_ITER_UDF"}

\* C21: in the grouped-map, cogrouped-map, grouped-map-with-state,
\* scalar-iterator and map-iterator modes a task whose UDF count is not
\* exactly one fails before any UDF definition is decoded (and before any
\* input batch is pulled); every other UDF mode accepts any count of one or
\* more and decodes that many UDF definitions.
C21_OneUdfExpected ==
    qPc \notin {"idle", "num_udfs"} =>
        /\ (qEvalType \in SingleUdfModes /\ qNumUdfs # 1) =>
              /\ qPc = "failed"
              /\ qErr = "AssertionError"
              /\ qUdfs = 0
              /\ qPulled = 0
        /\ (qEvalType \notin SingleUdfModes \/ qNumUdfs = 1) =>
              /\ qErr # "AssertionError"
              /\ qUdfs <= qNumUdfs
              /\ qPc # "udfs" => qUdfs = qNumUdfs

\* A cogrouped-map task that declares two UDFs has failed with nothing
\* decoded.
C21_Witness ==
    /\ qEvalType = "SQL_COGROUPED_MAP_PANDAS_UDF"
    /\ qNumUdfs = 2
    /\ qPc = "failed"
    /\ qUdfs = 0

\* C22: the generic output is demand-driven.  The mapper is applied to
\* batch k only when result k was asked for: between two requests nothing
\* is pulled ahead, and while a request is served exactly one batch more
\* than the results handed on has been pulled.  So the batches pulled
\* exceed the results handed to the output by at most one at every moment,
\* and the input is never taken whole before results are produced.
C22_DemandDriven ==
    /\ qApplied <= qPulled
    /\ qPulled <= qOut + 1
    /\ qPc \in {"request", "done"} => (qPulled = qOut /\ qApplied = qOut)
    /\ qPc = "apply" => (qPulled = qOut + 1 /\ qApplied = qOut)
    /\ qPc = "result" => (qPulled = qOut + 1 /\ qApplied = qOut + 1)

\* The second of two batches was pulled after the first result was handed
\* on, and is about to be given to the mapper.
C22_Witness ==
    /\ qInput = 2
    /\ qPulled = 2
    /\ qOut = 1
    /\ qPc = "apply"

(***************************************************************************)
(* Grouped aggregation and unbounded windows: wrap_grouped_agg_pandas_udf  *)
(* (452-461) and wrap_unbounded_window_agg_pandas_udf (480-493).  One      *)
(* application of the adapter to the argument columns of a group or        *)
(* window.                                                                 *)
(***************************************************************************)
MaxAggLen == 2

AggKinds == {"grouped_agg", "window_unbounded"}

\* The argument columns of one batch: one or two series of one length.
AggBatches ==
    UNION {[1..k -> [1..n -> Vals]] : k \in ArgCounts, n \in 0..MaxAggLen}

\* A variant of repeat that leaves the series as it is.
Repeat_not_applied(s, n) == s

\* pandas Series.repeat(n): every element n times over.
Repeat(s, n) == [i \in 1..(Len(s) * n) |-> s[((i - 1) \div n) + 1]]

AggInit ==
    /\ aKind \in AggKinds
    /\ aArgs \in AggBatches
    /\ aCalls = 0
    /\ aResult = 0
    /\ aOut = <<>>
    /\ aPc = "call"

\* Lines 458 and 490: result = f(*args, **kwargs).
AggInvoke ==
    /\ aPc = "call"
    /\ aCalls' = aCalls + 1
    /\ aResult' = Agg(aArgs)
    /\ aPc' = "wrap"
    /\ UNCHANGED <<aKind, aArgs, aOut>>
    /\ UNCHANGED notAgg

\* Lines 459 and 491: the series built from the result.
AggReturn ==
    /\ aPc = "wrap"
    /\ aOut' = IF aKind = "grouped_agg"
               THEN <<aResult>>
               ELSE Repeat(<<aResult>>, Len(aArgs[1]))
    /\ aPc' = "done"
    /\ UNCHANGED <<aKind, aArgs, aCalls, aResult>>
    /\ UNCHANGED notAgg

NextAgg == AggInvoke \/ AggReturn

InitAgg ==
    /\ AggInit
    /\ ChainIdle /\ UdtfIdle /\ MainIdle /\ IterIdle /\ VecIdle
    /\ StateIdle /\ WinIdle /\ VerifyIdle /\ DecodeIdle /\ ResIdle
    /\ UdfsIdle /\ RowsIdle /\ ArrowIdle
    /\ MapperIdle /\ OffsIdle

SpecAgg == InitAgg /\ [][NextAgg]_vars

\* C26: the grouped-aggregate adapter invokes the chain exactly once per
\* group, on the full argument batch, and returns a batch of exactly one
\* element holding the result; the unbounded-window adapter invokes the
\* chain exactly once per window and returns a batch as long as the first
\* argument, every element equal to that one result, and of length zero for
\* an empty input batch.
C26_OneCallPerGroup ==
    /\ aCalls <= 1
    /\ aPc = "done" =>
         /\ aCalls = 1
         /\ aResult = SumSeq([c \in 1..Len(aArgs) |-> SumSeq(aArgs[c])])
         /\ aKind = "grouped_agg" => aOut = <<aResult>>
         /\ aKind = "window_unbounded" =>
              /\ Len(aOut) = Len(aArgs[1])
              /\ \A i \in 1..Len(aOut) : aOut[i] = aResult

\* An unbounded window of two rows and two arguments got its result twice.
C26_Witness ==
    /\ aKind = "window_unbounded"
    /\ aPc = "done"
    /\ Len(aArgs) = 2
    /\ Len(aArgs[1]) = 2
    /\ Len(aOut) = 2

(***************************************************************************)
(* The row-based table function: wrap_udtf (858-908).  One call of         *)
(* evaluate, for eval or for terminate, is followed through the rows of    *)
(* the handler's result.                                                   *)
(***************************************************************************)
MaxOutRows == 2

RowLens == {0, 1, 2}

\* What the handler may produce for a row: None, something with a length
\* (a tuple, a list, a dict, a string) or without one (an object with
\* attributes, a number), of a type line 874 takes for a row or not.
NoneRow == [none |-> TRUE, has_len |-> FALSE, len |-> 0, row_type |-> TRUE]
OutputRows ==
    {NoneRow}
    \cup [none : {FALSE}, has_len : {TRUE}, len : RowLens, row_type : BOOLEAN]
    \cup [none : {FALSE}, has_len : {FALSE}, len : {0}, row_type : BOOLEAN]

\* What the call of the handler method may give.
HandlerReturns ==
    {[kind |-> k, rows |-> <<>>] : k \in {"raises", "None", "not_iterable"}}
    \cup [kind : {"rows"}, rows : SeqsUpTo(OutputRows, MaxOutRows)]

\* A variant that looks at the type of the row before its length.
verify_and_convert_result_type_first(result, return_type_size) ==
    IF result.none THEN NoErr
    ELSE IF ~result.row_type THEN "UDTF_INVALID_OUTPUT_ROW_TYPE"
    ELSE IF result.has_len /\ result.len # return_type_size
    THEN "UDTF_RETURN_SCHEMA_MISMATCH"
    ELSE NoErr

\* verify_and_convert_result (863-880): the error it raises, if any.
verify_and_convert_result(result, return_type_size) ==
    IF result.none THEN NoErr
    ELSE IF result.has_len /\ result.len # return_type_size
    THEN "UDTF_RETURN_SCHEMA_MISMATCH"
    ELSE IF ~result.row_type THEN "UDTF_INVALID_OUTPUT_ROW_TYPE"
    ELSE NoErr

RowsInit ==
    /\ xSize \in DeclaredCounts
    /\ xRes \in HandlerReturns
    /\ xPos = 0
    /\ xOut = <<>>
    /\ xPc = "call"
    /\ xErr = NoErr

\* Lines 884-901: the call of the method and the checks of what it returns.
EvaluateCall ==
    /\ xPc = "call"
    /\ CASE xRes.kind = "raises" ->
              xErr' = "UDTF_EXEC_ERROR" /\ xPc' = "failed"
         [] xRes.kind = "None" ->
              xErr' = xErr /\ xPc' = "done"
         [] xRes.kind = "not_iterable" ->
              xErr' = "UDTF_RETURN_NOT_ITERABLE" /\ xPc' = "failed"
         [] OTHER ->
              xErr' = xErr /\ xPc' = "rows"
    /\ UNCHANGED <<xSize, xRes, xPos, xOut>>
    /\ UNCHANGED notRows

\* Line 906, one element of map(verify_and_convert_result, res).
ConvertRow ==
    /\ xPc = "rows"
    /\ xPos < Len(xRes.rows)
    /\ LET result == xRes.rows[xPos + 1]
           err == verify_and_convert_result(result, xSize)
       IN IF err = NoErr
          THEN /\ xOut' = Append(xOut, result)
               /\ xPos' = xPos + 1
               /\ UNCHANGED <<xPc, xErr>>
          ELSE /\ xErr' = err
               /\ xPc' = "failed"
               /\ UNCHANGED <<xOut, xPos>>
    /\ UNCHANGED <<xSize, xRes>>
    /\ UNCHANGED notRows

\* Line 906: res is exhausted and the tuple is returned.
ConvertEnd ==
    /\ xPc = "rows"
    /\ xPos = Len(xRes.rows)
    /\ xPc' = "done"
    /\ UNCHANGED <<xSize, xRes, xPos, xOut, xErr>>
    /\ UNCHANGED notRows

NextRows == EvaluateCall \/ ConvertRow \/ ConvertEnd

InitRows ==
    /\ RowsInit
    /\ ChainIdle /\ UdtfIdle /\ MainIdle /\ IterIdle /\ VecIdle
    /\ StateIdle /\ WinIdle /\ VerifyIdle /\ DecodeIdle /\ ResIdle
    /\ UdfsIdle /\ AggIdle /\ ArrowIdle
    /\ MapperIdle /\ OffsIdle

SpecRows == InitRows /\ [][NextRows]_vars

\* A row that exposes a length other than the declared field count.
WrongLength(row) == ~row.none /\ row.has_len /\ row.len # xSize

\* C28: a call of eval or terminate that returns a non-null value that is
\* not iterable fails with UDTF_RETURN_NOT_ITERABLE; a null return gives
\* the empty row tuple; a call any of whose produced rows exposes a length
\* other than the declared field count does not succeed, and a row of a
\* wrong length fails with the field-count error even when its type is not
\* a row type either: the row-type error is raised only for a row that
\* passed the field-count check.
C28_RowChecks ==
    xPc \notin {"idle", "call"} =>
        /\ xRes.kind = "not_iterable" =>
              (xPc = "failed" /\ xErr = "UDTF_RETURN_NOT_ITERABLE")
        /\ xRes.kind = "None" =>
              (xPc = "done" /\ xErr = NoErr /\ xOut = <<>>)
        /\ xPc = "done" =>
              /\ xOut = xRes.rows
              /\ \A i \in 1..Len(xRes.rows) : ~WrongLength(xRes.rows[i])
        /\ (xPc = "failed" /\ xRes.kind = "rows") =>
              LET row == xRes.rows[xPos + 1] IN
              /\ xOut = SubSeq(xRes.rows, 1, xPos)
              /\ IF WrongLength(row)
                 THEN xErr = "UDTF_RETURN_SCHEMA_MISMATCH"
                 ELSE xErr = "UDTF_INVALID_OUTPUT_ROW_TYPE" /\ ~row.row_type

\* The second row is a string of a wrong length: the call failed with the
\* field-count error.
C28_Witness ==
    /\ xPc = "failed"
    /\ xPos = 1
    /\ Len(xRes.rows) = 2
    /\ xRes.rows[2].has_len
    /\ xRes.rows[2].len # xSize
    /\ ~xRes.rows[2].row_type
    /\ xErr = "UDTF_RETURN_SCHEMA_MISMATCH"

(***************************************************************************)
(* The vectorized table function: wrap_arrow_udtf (763-832).  One call of  *)
(* evaluate is followed: eval on the argument columns of an input batch,   *)
(* or terminate, which takes no argument.                                  *)
(***************************************************************************)
MaxBatchRows == 2

\* pd.DataFrame(res) for the rows a handler method produced: columns with
\* default or string labels.
UdtfFrames ==
    {r \in Results :
        /\ r.kind = "DataFrame"
        /\ Len(r.columns) <= 2
        /\ \A i \in 1..Len(r.columns) :
             r.columns[i] \in {Str("a"), [str |-> FALSE, v |-> "0"]}}

\* pd.DataFrame(None): no rows and no columns.
EmptyFrame == [kind |-> "DataFrame", columns |-> <<>>, rows |-> 0]

\* What one call of the handler method does: it raises, or returns None,
\* something that is not iterable, or rows that make a frame.
CallOutcomes ==
    {[kind |-> k, frame |-> EmptyFrame] : k \in {"raises", "None", "not_iterable"}}
    \cup [kind : {"rows"}, frame : UdtfFrames]

\* verify_result (769-797): the error it raises, if any.
verify_result(result, return_type) ==
    VerifyOnPath("arrow_udtf", FALSE, result, return_type).err

\* A variant of the number of calls that takes one call per row of the
\* batch whatever the number of arguments.
CallsOf_every_row(nargs, nrows) == nrows

\* The calls of the method evaluate makes for a batch (lines 810-823): one
\* when there is no argument, else one per row of the zipped columns.
CallsOf(nargs, nrows) == IF nargs = 0 THEN 1 ELSE nrows

ArrowInit ==
    /\ hMethod \in {"eval", "terminate"}
    /\ hArgs \in 0..MaxArgs
    /\ hRows \in 0..MaxBatchRows
    /\ hMethod = "terminate" => (hArgs = 0 /\ hRows = 0)
    /\ hReturnType \in {t \in DeclaredTypes : t.struct}
    /\ hResults \in [1..CallsOf(hArgs, hRows) -> CallOutcomes]
    /\ hI = 0
    /\ hCalls = 0
    /\ hOut = <<>>
    /\ hPc = "evaluate"
    /\ hErr = NoErr

\* Lines 800-830, one call of the method and what becomes of its result:
\* func wraps an exception of the call, line 824 refuses a value that is
\* not iterable when there are arguments (without arguments the DataFrame
\* constructor of line 811 raises on it), and verify_result checks the
\* frame before it is yielded.
EvaluateNext ==
    /\ hPc = "evaluate"
    /\ hCalls < CallsOf(hArgs, hRows)
    /\ LET o == hResults[hCalls + 1]
           err == CASE o.kind = "raises" -> "UDTF_EXEC_ERROR"
                    [] o.kind = "not_iterable" ->
                         IF hArgs = 0 THEN "ValueError"
                         ELSE "UDTF_RETURN_NOT_ITERABLE"
                    [] OTHER -> verify_result(o.frame, hReturnType)
       IN /\ hCalls' = hCalls + 1
          /\ IF err = NoErr
             THEN /\ hOut' = Append(hOut, [row |-> IF hArgs = 0 THEN 0 ELSE hI + 1,
                                          batch |-> o.frame])
                  /\ hI' = IF hArgs = 0 THEN hI ELSE hI + 1
                  /\ UNCHANGED <<hPc, hErr>>
             ELSE /\ hErr' = err
                  /\ hPc' = "failed"
                  /\ UNCHANGED <<hOut, hI>>
    /\ UNCHANGED <<hMethod, hArgs, hRows, hReturnType, hResults>>
    /\ UNCHANGED notArrow

\* The generator of evaluate ends.
EvaluateEnd ==
    /\ hPc = "evaluate"
    /\ hCalls = CallsOf(hArgs, hRows)
    /\ hPc' = "done"
    /\ UNCHANGED <<hMethod, hArgs, hRows, hReturnType, hResults, hI, hCalls,
                   hOut, hErr>>
    /\ UNCHANGED notArrow

NextArrow == EvaluateNext \/ EvaluateEnd

InitArrow ==
    /\ ArrowInit
    /\ ChainIdle /\ UdtfIdle /\ MainIdle /\ IterIdle /\ VecIdle
    /\ StateIdle /\ WinIdle /\ VerifyIdle /\ DecodeIdle /\ ResIdle
    /\ UdfsIdle /\ AggIdle /\ RowsIdle
    /\ MapperIdle /\ OffsIdle

SpecArrow == InitArrow /\ [][NextArrow]_vars

\* A batch the claim lets through: no rows and no columns, or as many
\* columns as the return type has fields.
Accepted(b) ==
    \/ b.rows = 0 /\ Len(b.columns) = 0
    \/ Len(b.columns) = Len(hReturnType.fields)

\* The batch checks of the claim: every batch yielded is the frame of its
\* call and is an accepted one, and a call whose frame is not accepted
\* fails the task with the schema-mismatch error.
BatchesChecked ==
    /\ \A i \in 1..Len(hOut) :
         hOut[i].batch = hResults[i].frame /\ Accepted(hOut[i].batch)
    /\ hPc = "failed" =>
         LET o == hResults[hCalls] IN
         /\ Len(hOut) = hCalls - 1
         /\ o.kind \in {"None", "rows"} =>
              (~Accepted(o.frame) /\ hErr = "UDTF_RETURN_SCHEMA_MISMATCH")

\* C29 as written: a batch with a row or a column must have as many columns
\* as the return type has fields, else the task fails; a batch without rows
\* and columns is accepted; and an evaluation that ends has yielded one
\* result batch per row of the input batch, in row order.
C29_OneBatchPerRow ==
    /\ BatchesChecked
    /\ (hPc = "done" /\ hMethod = "eval") =>
         /\ Len(hOut) = hRows
         /\ hArgs > 0 => \A i \in 1..Len(hOut) : hOut[i].row = i

\* C29: the batch checks as written; an evaluation with at least one
\* argument that ends has called the method once per row of the input batch
\* and yielded one result batch per row, in row order; an evaluation
\* without arguments (terminate always, eval of a table function that
\* takes none) has called the method once and yielded exactly one batch,
\* whatever the number of rows of the input batch.
C29_OneBatchPerCall ==
    /\ BatchesChecked
    /\ hPc = "done" =>
         IF hArgs > 0
         THEN /\ hCalls = hRows
              /\ Len(hOut) = hRows
              /\ \A i \in 1..Len(hOut) : hOut[i].row = i
         ELSE /\ hCalls = 1
              /\ Len(hOut) = 1

\* An eval without arguments on an input batch of two rows has ended with
\* one batch.
C29_Witness ==
    /\ hMethod = "eval"
    /\ hArgs = 0
    /\ hRows = 2
    /\ hPc = "done"
    /\ Len(hOut) = 1

(***************************************************************************)
(* The generic mapper of read_udfs (1179-1193), applied to one input       *)
(* batch: the generator expression of lines 1184-1187 calls the UDFs one   *)
(* after the other.                                                        *)
(***************************************************************************)
\* The columns of the input batch a, by offset 0 and 1.
InputBatch == <<"column_0", "column_1">>

\* What read_single_udf returned for a UDF: its positional offsets, its
\* named offsets, and whether its function raises on this batch.
UdfDefs ==
    [args_offsets : {<<>>, <<0>>, <<1>>, <<1, 0>>},
     kwargs_offsets : {{}, {[name |-> "x", offset |-> 0]},
                       {[name |-> "x", offset |-> 1]}},
     raises : BOOLEAN]

\* f(*[a[o] for o in args_offsets], **{k: a[o] for k, o in kwargs_offsets.items()})
\* for UDF i: the call, which stands for its result as well.
UdfCall(i, udf) ==
    [udf |-> i,
     args |-> [j \in 1..Len(udf.args_offsets) |-> InputBatch[udf.args_offsets[j] + 1]],
     kwargs |-> {[name |-> kw.name, value |-> InputBatch[kw.offset + 1]] :
                   kw \in udf.kwargs_offsets}]

\* A variant that returns the tuple whatever its length.
mapper_result_always_tuple(result) == [bare |-> FALSE, vals |-> result]

\* Lines 1190-1193: the single result instead of a tuple of one.
mapper_result(result) == [bare |-> Len(result) = 1, vals |-> result]

MapperInit ==
    /\ kUdfs \in SeqsUpTo(UdfDefs, MaxUdfs)
    /\ kCalls = <<>>
    /\ kResult = NoMapped
    /\ kPc = "map"
    /\ kErr = NoErr

\* One element of the generator expression of lines 1184-1187: the next
\* UDF is called; its exception leaves the mapper.
InvokeUdf ==
    /\ kPc = "map"
    /\ Len(kCalls) < Len(kUdfs)
    /\ LET i == Len(kCalls) + 1 IN
       /\ kCalls' = Append(kCalls, UdfCall(i, kUdfs[i]))
       /\ IF kUdfs[i].raises
          THEN kErr' = "UserException" /\ kPc' = "failed"
          ELSE UNCHANGED <<kErr, kPc>>
    /\ UNCHANGED <<kUdfs, kResult>>
    /\ UNCHANGED notMapper

\* The tuple is complete: lines 1190-1193.
MapperReturn ==
    /\ kPc = "map"
    /\ Len(kCalls) = Len(kUdfs)
    /\ kResult' = mapper_result(kCalls)
    /\ kPc' = "done"
    /\ UNCHANGED <<kUdfs, kCalls, kErr>>
    /\ UNCHANGED notMapper

NextMapper == InvokeUdf \/ MapperReturn

InitMapper ==
    /\ MapperInit
    /\ ChainIdle /\ UdtfIdle /\ MainIdle /\ IterIdle /\ VecIdle
    /\ StateIdle /\ WinIdle /\ VerifyIdle /\ DecodeIdle /\ ResIdle
    /\ UdfsIdle /\ AggIdle /\ RowsIdle /\ ArrowIdle /\ OffsIdle

SpecMapper == InitMapper /\ [][NextMapper]_vars

\* Call i was made on UDF i with the columns its own offsets select.
OwnColumns(i) ==
    /\ kCalls[i].udf = i
    /\ Len(kCalls[i].args) = Len(kUdfs[i].args_offsets)
    /\ \A j \in 1..Len(kCalls[i].args) :
         kCalls[i].args[j] = InputBatch[kUdfs[i].args_offsets[j] + 1]
    /\ \A kw \in kUdfs[i].kwargs_offsets :
         [name |-> kw.name, value |-> InputBatch[kw.offset + 1]] \in kCalls[i].kwargs
    /\ Cardinality(kCalls[i].kwargs) = Cardinality(kUdfs[i].kwargs_offsets)

\* C36: with n UDFs in the task, a batch the mapper returns a result for
\* has had every UDF invoked exactly once, in declaration order, each on
\* the columns its own positional and named offsets select; the result is
\* the bare result when n = 1 and the n-tuple of the results in declaration
\* order when n > 1; when a UDF raises, the UDFs declared after it are not
\* invoked and the batch has no result.
C36_EveryUdfOncePerBatch ==
    /\ Len(kCalls) <= Len(kUdfs)
    /\ \A i \in 1..Len(kCalls) : OwnColumns(i)
    /\ kPc = "done" =>
         /\ Len(kCalls) = Len(kUdfs)
         /\ \A i \in 1..Len(kUdfs) : ~kUdfs[i].raises
         /\ kResult.vals = kCalls
         /\ Len(kUdfs) = 1 => kResult.bare
         /\ Len(kUdfs) > 1 => ~kResult.bare
    /\ kPc = "failed" =>
         /\ kErr = "UserException"
         /\ kResult = NoMapped
         /\ kUdfs[Len(kCalls)].raises
         /\ \A i \in 1..(Len(kCalls) - 1) : ~kUdfs[i].raises
    /\ (kPc = "map" /\ \E i \in 1..Len(kUdfs) : kUdfs[i].raises) =>
         \A i \in 1..Len(kCalls) : ~kUdfs[i].raises

\* Two UDFs with offsets of their own were applied to the batch.
C36_Witness ==
    /\ kPc = "done"
    /\ Len(kUdfs) = 2
    /\ kUdfs[1].args_offsets = <<1, 0>>
    /\ kUdfs[2].args_offsets = <<0>>
    /\ kUdfs[2].kwargs_offsets # {}
    /\ ~kResult.bare
    /\ Len(kResult.vals) = 2

(***************************************************************************)
(* extract_key_value_indexes (1080-1107) and the use the grouped mappers   *)
(* make of its pairs (1109-1124, 1163-1176).                               *)
(***************************************************************************)
MaxGroups == 2

KeyLists == {<<>>, <<0>>, <<1, 0>>}
ValueLists == {<<>>, <<1>>, <<2, 1>>}
OffsetGroups == [keys : KeyLists, values : ValueLists]

\* The encoding the docstring of lines 1081-1095 describes: every group is
\* its length, its key count, its key indexes and its value indexes.
RECURSIVE EncodeGroups(_)
EncodeGroups(groups) ==
    IF groups = <<>> THEN <<>>
    ELSE LET g == Head(groups) IN
         <<1 + Len(g.keys) + Len(g.values), Len(g.keys)>> \o g.keys \o g.values
           \o EncodeGroups(Tail(groups))

\* A variant that forgets the key count stands before the key indexes.
split_index_without_count(offsets) == offsets[1]

\* Line 1102.
split_index(offsets) == offsets[1] + 1

\* Python's s[lo:hi] for 0 <= lo, with the clamping to the length.
Slice(s, lo, hi) ==
    LET h == IF hi > Len(s) THEN Len(s) ELSE hi IN
    IF lo >= h THEN <<>> ELSE SubSeq(s, lo + 1, h)

\* The pairs a mapper reads: parsed_offsets[0] for GroupedMap (1122-1123),
\* parsed_offsets[0] and parsed_offsets[1] for CogroupedMap (1172-1175).
PairsUsed(mode, parsed) ==
    IF mode = "cogrouped_map" THEN <<parsed[1], parsed[2]>> ELSE <<parsed[1]>>

OffsInit ==
    /\ oMode \in {"grouped_map", "cogrouped_map"}
    /\ oGroups \in SeqsUpTo(OffsetGroups, MaxGroups)
    /\ Len(oGroups) >= (IF oMode = "cogrouped_map" THEN 2 ELSE 1)
    /\ oList = EncodeGroups(oGroups)
    /\ oIdx = 0
    /\ oParsed = <<>>
    /\ oUsed = <<>>
    /\ oPc = "parse"

\* One iteration of the loop of lines 1098-1106.
ParseGroup ==
    /\ oPc = "parse"
    /\ oIdx < Len(oList)
    /\ LET offsets_len == oList[oIdx + 1]
           offsets == Slice(oList, oIdx + 1, oIdx + 1 + offsets_len)
           offset_keys == Slice(offsets, 1, split_index(offsets))
           offset_values == Slice(offsets, split_index(offsets), Len(offsets))
       IN /\ oParsed' = Append(oParsed, <<offset_keys, offset_values>>)
          /\ oIdx' = oIdx + 1 + offsets_len
    /\ UNCHANGED <<oMode, oGroups, oList, oUsed, oPc>>
    /\ UNCHANGED notOffs

\* The loop ends, the list is returned (1107) and the mapper takes its
\* pairs.
ParseEnd ==
    /\ oPc = "parse"
    /\ oIdx >= Len(oList)
    /\ oUsed' = PairsUsed(oMode, oParsed)
    /\ oPc' = "done"
    /\ UNCHANGED <<oMode, oGroups, oList, oIdx, oParsed>>
    /\ UNCHANGED notOffs

NextOffs == ParseGroup \/ ParseEnd

InitOffs ==
    /\ OffsInit
    /\ ChainIdle /\ UdtfIdle /\ MainIdle /\ IterIdle /\ VecIdle
    /\ StateIdle /\ WinIdle /\ VerifyIdle /\ DecodeIdle /\ ResIdle
    /\ UdfsIdle /\ AggIdle /\ RowsIdle /\ ArrowIdle /\ MapperIdle

SpecOffs == InitOffs /\ [][NextOffs]_vars

\* The pair of a group: its keys and its values in their original order.
GroupPair(g) == <<g.keys, g.values>>

\* The parsing has ended with one pair per group, the whole list consumed,
\* and the mapper reading the leading pairs.
OffsInverted ==
    /\ Len(oParsed) <= Len(oGroups)
    /\ \A i \in 1..Len(oParsed) : oParsed[i] = GroupPair(oGroups[i])
    /\ oIdx = Len(EncodeGroups(SubSeq(oGroups, 1, Len(oParsed))))
    /\ oPc = "done" =>
         /\ Len(oParsed) = Len(oGroups)
         /\ oIdx = Len(oList)
         /\ oUsed[1] = GroupPair(oGroups[1])
         /\ oMode = "grouped_map" => Len(oUsed) = 1
         /\ oMode = "cogrouped_map" =>
              /\ Len(oUsed) = 2
              /\ oUsed[2] = GroupPair(oGroups[2])

\* C37: for a list that concatenates n groups [group length, key count,
\* key indexes..., value indexes...], extract_key_value_indexes returns
\* exactly n pairs [keys, values] in group order with each group's keys and
\* values in their original order, consumes the whole list and terminates
\* (every iteration moves the index forward, and never past the end);
\* GroupedMap reads pair 0, CogroupedMap pairs 0 and 1.
C37_OffsetsInverted ==
    /\ []OffsInverted
    /\ [][oIdx' # oIdx => (oIdx' > oIdx /\ oIdx' <= Len(oList))]_vars
    /\ [][oPc = "parse" /\ oIdx < Len(oList) => ENABLED ParseGroup]_vars

\* A cogrouped list of two groups with keys and values was parsed.
C37_Witness ==
    /\ oPc = "done"
    /\ oMode = "cogrouped_map"
    /\ oGroups[1] = [keys |-> <<1, 0>>, values |-> <<2, 1>>]
    /\ oGroups[2] = [keys |-> <<0>>, values |-> <<>>]
    /\ oUsed = <<<<<<1, 0>>, <<2, 1>>>>, <<<<0>>, <<>>>>>>
    /\ oIdx = Len(oList)

====
